---------------------------- MODULE Spec2Model ----------------------------
(***************************************************************************)
(* A model of PepTrack's storage and encryption core:                      *)
(*   - crates/core/src/encryption.rs         (EnvelopeEncryption)          *)
(*   - crates/core/src/backup_encryption.rs  (password based backup codec) *)
(*   - crates/core/src/db.rs                 (StorageManager)              *)
(*   - src-tauri/src/commands/*.rs           (callers of the manager)      *)
(*                                                                         *)
(* The ChaCha20-Poly1305 AEAD and Argon2id live in external crates.  They  *)
(* are modelled as ideal primitives: the stream cipher XORs a keystream    *)
(* that depends on (key, nonce, position); a tag verifies only for a       *)
(* (key, nonce, ciphertext) triple that was authenticated before           *)
(* (unforgeability); the KDF is injective on (password, salt).             *)
(***************************************************************************)
EXTENDS Integers, Sequences, FiniteSets, TLC

(***************************************************************************)
(* Bounds of the model.                                                    *)
(***************************************************************************)
MaxLen == 1            \* longest plaintext handed to seal / encrypt_backup
MaxFaults == 2         \* faults injected into one backup container
MaxBatch == 2          \* identifiers handed to one bulk operation

(***************************************************************************)
(* Program constants.                                                      *)
(***************************************************************************)
KEY_LEN == 32          \* KeyMaterial::to_key_bytes, [u8; 32]
NONCE_LEN == 12        \* nonce_bytes = [0u8; 12]
MIN_PAYLOAD == 13      \* open: payload.len() < 13
TAG_LEN == 16          \* Poly1305 tag appended by the AEAD
BYTE == 256            \* u8

Byte == 0..(BYTE - 1)

VARIABLES
    \* ---- envelope encryption (encryption.rs) ----
    macIssued,     \* set of <<key, nonce, ciphertext>> the AEAD has authenticated
    wire,          \* the sealed payload in flight, <<>> before seal
    sealedBy,      \* provider instance that sealed `wire` (0 = none)
    sealedPt,      \* plaintext that was handed to seal
    tamper,        \* <<pos, bit>> of the bit flipped in `wire`, <<>> if none
    opened,        \* result of the last open: [by, ok, val, err], by = 0 if none
    \* ---- backup codec (backup_encryption.rs) ----
    bkIssued,      \* set of <<key, nonce, ciphertext>> the codec's AEAD authenticated
    bkFile,        \* the container JSON on disk, NoFile before encrypt_backup
    bkDoc,         \* backup_json handed to encrypt_backup
    bkPw,          \* password handed to encrypt_backup
    bkFaults,      \* what happened to the file since: subset of FaultKinds
    bkResult,      \* result of decrypt_backup: [done, pw, ok, val, err]
    \* ---- storage manager (db.rs) ----
    db,            \* the committed tables of the database file
    tx,            \* the open bulk-delete transaction, NoTx if none
    ret,           \* the last storage call and what it returned
    policies,      \* history: what bulk deletes did with one valid, one invalid id
    \* ---- the database file and the connection (db.rs open_connection) ----
    file,          \* header and schema of the file: version, tables, damage
    conn,          \* settings of the connection opened last, NoConn if none
    \* ---- key providers and their backends (encryption.rs, keychain.rs) ----
    backend,       \* environment variable, Keychain item and key file
    provider,      \* the key provider this process has constructed
    kwire,         \* the payload sealed last and the triples authenticated
    kret,          \* what the last key operation did and returned
    \* ---- format detection (backup_encryption.rs is_encrypted_backup) ----
    detected,      \* the document examined last and the answer
    \* ---- the backup scheduler (commands/scheduler_v2.rs) ----
    schedule,      \* SchedulerState.schedule, the schedule in memory
    schedDisk,     \* backup_schedule.json: <<>> or <<schedule>>
    history,       \* SchedulerState.history, newest entry first
    progress,      \* SchedulerState.progress
    backup_lock,   \* SchedulerState.backup_lock: "free" or the task holding it
    task,          \* where the scheduler loop, the manual trigger and the close hook are
    now_utc,       \* OffsetDateTime::now_utc(), in hours
    sret,          \* what the last scheduler step did and returned
    \* ---- storage calls in flight on worker threads (db.rs) ----
    calls,         \* per worker: the read-modify-write call it is inside
    \* ---- export and restore (commands/backup.rs, commands/restore.rs) ----
    xfer           \* the exported file, the store it came from, the store restored

envVars == <<macIssued, wire, sealedBy, sealedPt, tamper, opened>>
bkVars == <<bkIssued, bkFile, bkDoc, bkPw, bkFaults, bkResult>>
dbVars == <<db, tx, ret, policies>>
fileVars == <<file, conn>>
keyVars == <<backend, provider, kwire, kret>>
schVars == <<schedule, schedDisk, history, progress, backup_lock, task, now_utc, sret>>
vars == <<envVars, bkVars, dbVars, fileVars, keyVars, detected, schVars, calls, xfer>>

\* What the actions of one component leave alone.
envOthers == <<bkVars, dbVars, fileVars, keyVars, detected, schVars, calls, xfer>>
bkOthers == <<envVars, dbVars, fileVars, keyVars, detected, schVars, calls, xfer>>
dbOthers == <<envVars, bkVars, fileVars, keyVars, detected, schVars, calls, xfer>>
fileOthers == <<envVars, bkVars, keyVars, detected, schVars, calls, xfer>>
keyOthers == <<envVars, bkVars, dbVars, fileVars, detected, schVars, calls, xfer>>
detectOthers == <<envVars, bkVars, dbVars, fileVars, keyVars, schVars, calls, xfer>>
schOthers == <<envVars, bkVars, dbVars, fileVars, keyVars, detected, calls, xfer>>
callOthers == <<envVars, bkVars, fileVars, keyVars, detected, schVars, xfer>>
xferOthers == <<envVars, bkVars, fileVars, keyVars, detected, schVars, calls>>

(***************************************************************************)
(* Byte helpers.                                                           *)
(***************************************************************************)
RECURSIVE XorBits(_, _, _)
XorBits(a, b, n) ==
    IF n = 0 THEN 0
    ELSE (((a % 2) + (b % 2)) % 2) + 2 * XorBits(a \div 2, b \div 2, n - 1)

XorByte(a, b) == XorBits(a, b, 8)

RECURSIVE Pow2(_)
Pow2(n) == IF n = 0 THEN 1 ELSE 2 * Pow2(n - 1)

RECURSIVE SumTo(_, _)
SumTo(s, n) == IF n = 0 THEN 0 ELSE (s[n] + SumTo(s, n - 1)) % BYTE

SumSeq(s) == SumTo(s, Len(s))

Repeat(b, n) == [i \in 1..n |-> b]

Take(s, n) == SubSeq(s, 1, n)
Drop(s, n) == SubSeq(s, n + 1, Len(s))

RECURSIVE SeqsUpTo(_, _)
SeqsUpTo(S, n) ==
    IF n = 0 THEN {<<>>}
    ELSE LET shorter == SeqsUpTo(S, n - 1)
         IN  shorter \cup {Append(s, x) : s \in {t \in shorter : Len(t) = n - 1}, x \in S}

Ok(v) == [ok |-> TRUE, val |-> v, err |-> ""]
Err(e) == [ok |-> FALSE, val |-> <<>>, err |-> e]

(***************************************************************************)
(* KeyMaterial and the key providers.                                      *)
(***************************************************************************)
\* KeyMaterial::new: at least 32 bytes or an error.
KeyMaterialNew(bytes) ==
    IF Len(bytes) < KEY_LEN THEN Err("Key material must be at least 32 bytes")
    ELSE Ok(bytes)

\* KeyMaterial::to_key_bytes: the first 32 bytes.
to_key_bytes(material) == Take(material, KEY_LEN)

\* The StaticKeyProvider instances of the model: instance 1 and 2 hold
\* different 32-byte keys, instance 3 holds 33 bytes whose first 32 are
\* those of instance 1.
ProviderBytes ==
    <<Repeat(1, KEY_LEN), Repeat(2, KEY_LEN), Append(Repeat(1, KEY_LEN), 9)>>

Providers == DOMAIN ProviderBytes

\* StaticKeyProvider::key_material (StaticKeyProvider::new validated the bytes).
key_material(inst) == KeyMaterialNew(ProviderBytes[inst])

\* Two providers hand out the same 32 key bytes.
SameKey(i, j) == to_key_bytes(ProviderBytes[i]) = to_key_bytes(ProviderBytes[j])

(***************************************************************************)
(* The AEAD (ChaCha20-Poly1305), idealised.                                *)
(***************************************************************************)
\* Keystream byte i of ChaCha20 under (key, nonce): a stand-in that depends on
\* the key, the nonce and the position.
KeystreamSeed(key, nonce) == (7 * SumSeq(key) + 13 * SumSeq(nonce) + 1) % BYTE

KeystreamByte(seed, i) == (seed + 31 * i) % BYTE

XorStream(key, nonce, data) ==
    LET seed == KeystreamSeed(key, nonce)
    IN  [i \in 1..Len(data) |-> XorByte(data[i], KeystreamByte(seed, i))]

\* The 16 tag bytes Poly1305 computes over the ciphertext under a one-time key
\* derived from (key, nonce): a stand-in checksum.
Poly1305Tag(key, nonce, ct) ==
    LET r == (SumSeq(key) + 3 * SumSeq(nonce) + 5 * SumSeq(ct) + 11 * Len(ct)) % BYTE
    IN  [j \in 1..TAG_LEN |-> (r + 17 * j) % BYTE]

\* cipher.encrypt(nonce, plaintext): ciphertext || tag.
AeadEncrypt(key, nonce, pt) ==
    LET ct == XorStream(key, nonce, pt)
    IN  ct \o Poly1305Tag(key, nonce, ct)

\* The triple cipher.encrypt authenticates.
AeadTriple(key, nonce, pt) == <<key, nonce, XorStream(key, nonce, pt)>>

\* cipher.decrypt(nonce, ciphertext || tag) given the triples authenticated so
\* far: an error unless the tag verifies; a tag verifies only for a triple that
\* was authenticated (ideal MAC).
AeadDecrypt(issued, key, nonce, body) ==
    IF Len(body) < TAG_LEN THEN Err("aead::Error")
    ELSE LET ct  == Take(body, Len(body) - TAG_LEN)
             tag == Drop(body, Len(body) - TAG_LEN)
         IN  IF tag = Poly1305Tag(key, nonce, ct) /\ <<key, nonce, ct>> \in issued
             THEN Ok(XorStream(key, nonce, ct))
             ELSE Err("aead::Error")

(***************************************************************************)
(* EnvelopeEncryption::seal and ::open.                                    *)
(***************************************************************************)
\* A seal that writes the nonce after the ciphertext instead of before it.
seal_nonce_last(inst, nonce, plaintext) ==
    LET km == key_material(inst)
    IN  IF ~km.ok THEN km
        ELSE Ok(AeadEncrypt(to_key_bytes(km.val), nonce, plaintext) \o nonce)

\* seal, given what self.key_provider.key_material() answers in this call,
\* with the nonce OsRng produced: nonce || ciphertext || tag.
SealWith(km, nonce, plaintext) ==
    IF ~km.ok THEN km
    ELSE Ok(nonce \o AeadEncrypt(to_key_bytes(km.val), nonce, plaintext))

seal(inst, nonce, plaintext) == SealWith(key_material(inst), nonce, plaintext)

\* An open that runs the stream cipher without verifying the tag.
open_unauthenticated(issued, inst, payload) ==
    IF Len(payload) < MIN_PAYLOAD THEN Err("ciphertext too short")
    ELSE LET nonce_bytes == Take(payload, NONCE_LEN)
             ciphertext  == Drop(payload, NONCE_LEN)
             km          == key_material(inst)
         IN  IF ~km.ok THEN km
             ELSE IF Len(ciphertext) < TAG_LEN THEN Err("decryption failed: aead::Error")
             ELSE Ok(XorStream(to_key_bytes(km.val), nonce_bytes,
                               Take(ciphertext, Len(ciphertext) - TAG_LEN)))

\* An open that keeps using the key of the first provider it was built with.
open_cached_key(issued, inst, payload) ==
    IF Len(payload) < MIN_PAYLOAD THEN Err("ciphertext too short")
    ELSE LET nonce_bytes == Take(payload, NONCE_LEN)
             ciphertext  == Drop(payload, NONCE_LEN)
             km          == key_material(1)
         IN  IF ~km.ok THEN km
             ELSE LET r == AeadDecrypt(issued, to_key_bytes(km.val), nonce_bytes, ciphertext)
                  IN  IF r.ok THEN r ELSE Err("decryption failed: aead::Error")

\* open, given what self.key_provider.key_material() answers in this call.
OpenWith(issued, km, payload) ==
    IF Len(payload) < MIN_PAYLOAD THEN Err("ciphertext too short")
    ELSE LET nonce_bytes == Take(payload, NONCE_LEN)
             ciphertext  == Drop(payload, NONCE_LEN)
         IN  IF ~km.ok THEN km
             ELSE LET r == AeadDecrypt(issued, to_key_bytes(km.val), nonce_bytes, ciphertext)
                  IN  IF r.ok THEN r ELSE Err("decryption failed: aead::Error")

open(issued, inst, payload) == OpenWith(issued, key_material(inst), payload)

(***************************************************************************)
(* Inputs of the envelope specification.                                   *)
(***************************************************************************)
PtBytes == {0, 165}
Plaintexts == SeqsUpTo(PtBytes, MaxLen)
NonceBytes == {0, 7}
Nonces == {Repeat(b, NONCE_LEN) : b \in NonceBytes}

NoOpen == [by |-> 0, ok |-> FALSE, val |-> <<>>, err |-> ""]

\* A bit flipped in transit or on disk.
FlipBit(payload, pos, bit) ==
    [payload EXCEPT ![pos] = XorByte(@, Pow2(bit))]

EnvInit ==
    /\ macIssued = {}
    /\ wire = <<>>
    /\ sealedBy = 0
    /\ sealedPt = <<>>
    /\ tamper = <<>>
    /\ opened = NoOpen

\* encryption.seal(plaintext) on provider instance inst.
EnvSeal(inst, p, nonce) ==
    /\ sealedBy = 0
    /\ LET r == seal(inst, nonce, p)
       IN  /\ r.ok
           /\ wire' = r.val
           /\ macIssued' = macIssued \cup
                  {AeadTriple(to_key_bytes(key_material(inst).val), nonce, p)}
    /\ sealedBy' = inst
    /\ sealedPt' = p
    /\ UNCHANGED <<tamper, opened>>
    /\ UNCHANGED envOthers

\* The environment flips one bit of the sealed payload.
EnvTamper(pos, bit) ==
    /\ sealedBy # 0
    /\ tamper = <<>>
    /\ opened.by = 0
    /\ pos \in 1..Len(wire)
    /\ wire' = FlipBit(wire, pos, bit)
    /\ tamper' = <<pos, bit>>
    /\ UNCHANGED <<macIssued, sealedBy, sealedPt, opened>>
    /\ UNCHANGED envOthers

\* The sealed payload is cut to its first n bytes (a truncated read or
\* write).
EnvTruncate(n) ==
    /\ sealedBy # 0
    /\ opened.by = 0
    /\ n < Len(wire)
    /\ wire' = Take(wire, n)
    /\ UNCHANGED <<macIssued, sealedBy, sealedPt, tamper, opened>>
    /\ UNCHANGED envOthers

\* encryption.open(&wire) on provider instance inst.
EnvOpen(inst) ==
    /\ sealedBy # 0
    /\ opened.by = 0
    /\ LET r == open(macIssued, inst, wire)
       IN  opened' = [by |-> inst, ok |-> r.ok, val |-> r.val, err |-> r.err]
    /\ UNCHANGED <<macIssued, wire, sealedBy, sealedPt, tamper>>
    /\ UNCHANGED envOthers

EnvNext ==
    \/ \E inst \in Providers, p \in Plaintexts, nonce \in Nonces : EnvSeal(inst, p, nonce)
    \/ \E pos \in 1..(NONCE_LEN + MaxLen + TAG_LEN), bit \in 0..7 : EnvTamper(pos, bit)
    \/ \E inst \in Providers : EnvOpen(inst)

ShortNext ==
    \/ \E inst \in Providers, p \in Plaintexts, nonce \in Nonces : EnvSeal(inst, p, nonce)
    \/ \E n \in 0..(NONCE_LEN + MaxLen + TAG_LEN) : EnvTruncate(n)
    \/ \E inst \in Providers : EnvOpen(inst)

(***************************************************************************)
(* Base64 (base64::engine::general_purpose::STANDARD).  A character is its *)
(* sextet 0..63, B64_PAD is '=', B64_BAD is a character outside the        *)
(* alphabet.                                                               *)
(***************************************************************************)
B64_PAD == 64
B64_BAD == 65

RECURSIVE B64EncodeFrom(_, _)
B64EncodeFrom(bytes, i) ==
    LET n == Len(bytes) - i + 1
    IN  IF n <= 0 THEN <<>>
        ELSE IF n = 1 THEN
            <<bytes[i] \div 4, (bytes[i] % 4) * 16, B64_PAD, B64_PAD>>
        ELSE IF n = 2 THEN
            <<bytes[i] \div 4,
              (bytes[i] % 4) * 16 + (bytes[i + 1] \div 16),
              (bytes[i + 1] % 16) * 4,
              B64_PAD>>
        ELSE
            <<bytes[i] \div 4,
              (bytes[i] % 4) * 16 + (bytes[i + 1] \div 16),
              (bytes[i + 1] % 16) * 4 + (bytes[i + 2] \div 64),
              bytes[i + 2] % 64>> \o B64EncodeFrom(bytes, i + 3)

\* BASE64.encode
B64Encode(bytes) == B64EncodeFrom(bytes, 1)

RECURSIVE B64DecodeFrom(_, _)
B64DecodeFrom(chars, i) ==
    IF i > Len(chars) THEN <<>>
    ELSE LET a == chars[i]
             b == chars[i + 1]
             c == chars[i + 2]
             d == chars[i + 3]
             b1 == a * 4 + (b \div 16)
             b2 == (b % 16) * 16 + (c \div 4)
             b3 == (c % 4) * 64 + d
         IN  IF c = B64_PAD THEN <<b1>>
             ELSE IF d = B64_PAD THEN <<b1, b2>>
             ELSE <<b1, b2, b3>> \o B64DecodeFrom(chars, i + 4)

\* What STANDARD accepts: padded to a multiple of four, alphabet characters
\* only, '=' only as the last one or two characters, unused trailing bits zero.
B64WellFormed(chars) ==
    LET n == Len(chars)
    IN  /\ n % 4 = 0
        /\ \A i \in 1..n : chars[i] \in 0..B64_PAD
        /\ \A i \in 1..n : chars[i] = B64_PAD => i >= n - 1
        /\ n > 0 =>
            /\ (chars[n - 1] = B64_PAD => chars[n] = B64_PAD)
            /\ (chars[n - 1] = B64_PAD => chars[n - 2] % 16 = 0)
            /\ ((chars[n] = B64_PAD /\ chars[n - 1] # B64_PAD) => chars[n - 1] % 4 = 0)

\* BASE64.decode
B64Decode(chars) ==
    IF B64WellFormed(chars) THEN Ok(B64DecodeFrom(chars, 1))
    ELSE Err("base64::DecodeError")

(***************************************************************************)
(* Argon2id key derivation, idealised: injective on (password, salt) for   *)
(* passwords of at most 7 bytes and salts of at most 23 bytes.             *)
(***************************************************************************)
SALT_SIZE == 16               \* const SALT_SIZE
BACKUP_ENCRYPTION_VERSION == 1
ARGON2_MIN_SALT == 8          \* argon2: salt shorter than 8 bytes is rejected
SALT_MAX == 48                \* SaltString: at most 64 base64 characters

Pad(s, n) == [i \in 1..n |-> IF i <= Len(s) THEN s[i] ELSE 0]

\* SaltString::encode_b64(&salt_bytes) followed by argon2.hash_password and the
\* extraction of the 32 byte hash.
Argon2Derive(password, salt) ==
    IF Len(salt) < 3 \/ Len(salt) > SALT_MAX THEN Err("Failed to encode salt")
    ELSE IF Len(salt) < ARGON2_MIN_SALT THEN Err("Failed to derive key from password")
    ELSE Ok(<<Len(password)>> \o Pad(password, 7) \o <<Len(salt)>> \o Pad(salt, KEY_LEN - 9))

(***************************************************************************)
(* The container and its JSON form.                                        *)
(***************************************************************************)
NoFile == [json |-> "none", version |-> 0, encrypted |-> FALSE,
           salt |-> <<>>, nonce |-> <<>>, ciphertext |-> <<>>]

\* serde_json::to_string(&EncryptedBackup)
ContainerToJson(c) ==
    [json |-> "object", version |-> c.version, encrypted |-> c.encrypted,
     salt |-> c.salt, nonce |-> c.nonce, ciphertext |-> c.ciphertext]

\* serde_json::from_str::<EncryptedBackup>: an object with a u32 version, a
\* boolean flag and three strings.
ContainerFromJson(doc) ==
    IF doc.json # "object" \/ doc.version < 0
    THEN Err("Failed to parse encrypted backup")
    ELSE Ok([version |-> doc.version, encrypted |-> doc.encrypted,
             salt |-> doc.salt, nonce |-> doc.nonce, ciphertext |-> doc.ciphertext])

\* String::from_utf8 on the decrypted bytes: lead bytes must be followed by
\* the right number of continuation bytes.
RECURSIVE Utf8ValidFrom(_, _)
Utf8ValidFrom(bytes, i) ==
    IF i > Len(bytes) THEN TRUE
    ELSE LET b == bytes[i]
             need == IF b < 128 THEN 0
                     ELSE IF b >= 194 /\ b <= 223 THEN 1
                     ELSE IF b >= 224 /\ b <= 239 THEN 2
                     ELSE IF b >= 240 /\ b <= 244 THEN 3
                     ELSE 4
         IN  /\ need < 4
             /\ i + need <= Len(bytes)
             /\ \A k \in 1..need : bytes[i + k] >= 128 /\ bytes[i + k] <= 191
             /\ Utf8ValidFrom(bytes, i + need + 1)

(***************************************************************************)
(* encrypt_backup and decrypt_backup.                                      *)
(***************************************************************************)
\* An encrypt_backup that writes the salt into the nonce field.
encrypt_backup_nonce_from_salt(backup_json, password, salt_bytes, nonce_bytes) ==
    LET kd == Argon2Derive(password, salt_bytes)
    IN  IF ~kd.ok THEN kd
        ELSE LET ciphertext == AeadEncrypt(Take(kd.val, KEY_LEN), nonce_bytes, backup_json)
             IN  Ok(ContainerToJson(
                     [version    |-> BACKUP_ENCRYPTION_VERSION,
                      encrypted  |-> TRUE,
                      salt       |-> B64Encode(salt_bytes),
                      nonce      |-> B64Encode(salt_bytes),
                      ciphertext |-> B64Encode(ciphertext)]))

\* encrypt_backup with the salt and the nonce OsRng produced.
encrypt_backup(backup_json, password, salt_bytes, nonce_bytes) ==
    LET kd == Argon2Derive(password, salt_bytes)
    IN  IF ~kd.ok THEN kd
        ELSE IF Len(kd.val) < KEY_LEN THEN Err("Derived key too short (< 32 bytes)")
        ELSE LET ciphertext == AeadEncrypt(Take(kd.val, KEY_LEN), nonce_bytes, backup_json)
             IN  Ok(ContainerToJson(
                     [version    |-> BACKUP_ENCRYPTION_VERSION,
                      encrypted  |-> TRUE,
                      salt       |-> B64Encode(salt_bytes),
                      nonce      |-> B64Encode(nonce_bytes),
                      ciphertext |-> B64Encode(ciphertext)]))

\* The triple encrypt_backup's cipher authenticates.
BackupTriple(backup_json, password, salt_bytes, nonce_bytes) ==
    AeadTriple(Take(Argon2Derive(password, salt_bytes).val, KEY_LEN), nonce_bytes, backup_json)

\* A decrypt_backup that does not look at the encrypted flag.
decrypt_backup_ignores_flag(issued, encrypted_json, password) ==
    LET parsed == ContainerFromJson(encrypted_json)
    IN  IF ~parsed.ok THEN parsed
        ELSE LET encrypted == parsed.val
        IN  IF encrypted.version # BACKUP_ENCRYPTION_VERSION
            THEN Err("Unsupported backup encryption version")
        ELSE LET salt_bytes == B64Decode(encrypted.salt)
                 nonce_bytes == B64Decode(encrypted.nonce)
                 ciphertext == B64Decode(encrypted.ciphertext)
        IN  IF ~salt_bytes.ok THEN Err("Failed to decode salt")
        ELSE IF ~nonce_bytes.ok THEN Err("Failed to decode nonce")
        ELSE IF ~ciphertext.ok THEN Err("Failed to decode ciphertext")
        ELSE LET kd == Argon2Derive(password, salt_bytes.val)
        IN  IF ~kd.ok THEN kd
        ELSE IF Len(nonce_bytes.val) # NONCE_LEN THEN Err("panic: Nonce::from_slice")
        ELSE LET plaintext == AeadDecrypt(issued, Take(kd.val, KEY_LEN),
                                          nonce_bytes.val, ciphertext.val)
        IN  IF ~plaintext.ok
            THEN Err("Decryption failed - incorrect password or corrupted data")
        ELSE plaintext

decrypt_backup(issued, encrypted_json, password) ==
    LET parsed == ContainerFromJson(encrypted_json)
    IN  IF ~parsed.ok THEN parsed
        ELSE LET encrypted == parsed.val
        IN  IF encrypted.version # BACKUP_ENCRYPTION_VERSION
            THEN Err("Unsupported backup encryption version")
        ELSE IF ~encrypted.encrypted
            THEN Err("Backup is not marked as encrypted")
        ELSE LET salt_bytes == B64Decode(encrypted.salt)
                 nonce_bytes == B64Decode(encrypted.nonce)
                 ciphertext == B64Decode(encrypted.ciphertext)
        IN  IF ~salt_bytes.ok THEN Err("Failed to decode salt")
        ELSE IF ~nonce_bytes.ok THEN Err("Failed to decode nonce")
        ELSE IF ~ciphertext.ok THEN Err("Failed to decode ciphertext")
        ELSE LET kd == Argon2Derive(password, salt_bytes.val)
        IN  IF ~kd.ok THEN kd
        ELSE IF Len(kd.val) < KEY_LEN THEN Err("Derived key too short (< 32 bytes)")
        \* Nonce::from_slice asserts the length and aborts the thread otherwise.
        ELSE IF Len(nonce_bytes.val) # NONCE_LEN THEN Err("panic: Nonce::from_slice")
        ELSE LET plaintext == AeadDecrypt(issued, Take(kd.val, KEY_LEN),
                                          nonce_bytes.val, ciphertext.val)
        IN  IF ~plaintext.ok
            THEN Err("Decryption failed - incorrect password or corrupted data")
        ELSE IF ~Utf8ValidFrom(plaintext.val, 1)
            THEN Err("Decrypted data is not valid UTF-8")
        ELSE plaintext

(***************************************************************************)
(* The backup codec as a state machine: encrypt, what can happen to the    *)
(* file, decrypt.                                                          *)
(***************************************************************************)
DocChars == {123, 34}                    \* '{' and '"'
Documents == SeqsUpTo(DocChars, MaxLen)
Passwords == {<<>>, <<112>>, <<113>>}    \* "", "p", "q"
Salts == {Repeat(b, SALT_SIZE) : b \in {3, 250}}
OtherVersions == {0, 2}
B64Fields == {"salt", "nonce", "ciphertext"}
FaultKinds == {"version", "flag", "base64", "ciphertext"}
CorruptBits == {0, 7}

NoResult == [done |-> FALSE, pw |-> <<>>, ok |-> FALSE, val |-> <<>>, err |-> ""]

BkInit ==
    /\ bkIssued = {}
    /\ bkFile = NoFile
    /\ bkDoc = <<>>
    /\ bkPw = <<>>
    /\ bkFaults = {}
    /\ bkResult = NoResult

\* encrypt_backup(d, pw), the result written to the backup file.
BkEncrypt(d, pw, salt, nonce) ==
    /\ bkFile = NoFile
    /\ LET r == encrypt_backup(d, pw, salt, nonce)
       IN  /\ r.ok
           /\ bkFile' = r.val
    /\ bkIssued' = bkIssued \cup {BackupTriple(d, pw, salt, nonce)}
    /\ bkDoc' = d
    /\ bkPw' = pw
    /\ UNCHANGED <<bkFaults, bkResult>>
    /\ UNCHANGED bkOthers

CanFault(kind) ==
    /\ bkFile # NoFile
    /\ ~bkResult.done
    /\ kind \notin bkFaults
    /\ Cardinality(bkFaults) < MaxFaults

\* The file carries a version the codec does not know.
BkFaultVersion(v) ==
    /\ CanFault("version")
    /\ bkFile' = [bkFile EXCEPT !.version = v]
    /\ bkFaults' = bkFaults \cup {"version"}
    /\ UNCHANGED <<bkIssued, bkDoc, bkPw, bkResult>>
    /\ UNCHANGED bkOthers

\* The file's encrypted flag is false.
BkFaultFlag ==
    /\ CanFault("flag")
    /\ bkFile' = [bkFile EXCEPT !.encrypted = FALSE]
    /\ bkFaults' = bkFaults \cup {"flag"}
    /\ UNCHANGED <<bkIssued, bkDoc, bkPw, bkResult>>
    /\ UNCHANGED bkOthers

\* One base64 field is malformed: a character outside the alphabet, or the
\* last character lost.
BkFaultBase64(field, how) ==
    /\ CanFault("base64")
    /\ LET old == bkFile[field]
           new == IF how = "badchar" THEN [old EXCEPT ![1] = B64_BAD]
                  ELSE Take(old, Len(old) - 1)
       IN  bkFile' = [bkFile EXCEPT ![field] = new]
    /\ bkFaults' = bkFaults \cup {"base64"}
    /\ UNCHANGED <<bkIssued, bkDoc, bkPw, bkResult>>
    /\ UNCHANGED bkOthers

\* One bit of the ciphertext bytes is flipped; the field stays well-formed
\* base64.
BkFaultCiphertext(pos, bit) ==
    /\ CanFault("ciphertext")
    /\ "base64" \notin bkFaults
    /\ LET bytes == B64Decode(bkFile.ciphertext).val
       IN  /\ pos \in 1..Len(bytes)
           /\ bkFile' = [bkFile EXCEPT !.ciphertext = B64Encode(FlipBit(bytes, pos, bit))]
    /\ bkFaults' = bkFaults \cup {"ciphertext"}
    /\ UNCHANGED <<bkIssued, bkDoc, bkPw, bkResult>>
    /\ UNCHANGED bkOthers

\* decrypt_backup(file, pw2)
BkDecrypt(pw2) ==
    /\ bkFile # NoFile
    /\ ~bkResult.done
    /\ LET r == decrypt_backup(bkIssued, bkFile, pw2)
       IN  bkResult' = [done |-> TRUE, pw |-> pw2, ok |-> r.ok, val |-> r.val, err |-> r.err]
    /\ UNCHANGED <<bkIssued, bkFile, bkDoc, bkPw, bkFaults>>
    /\ UNCHANGED bkOthers

BkNext ==
    \/ \E d \in Documents, pw \in Passwords, salt \in Salts, nonce \in Nonces :
          BkEncrypt(d, pw, salt, nonce)
    \/ \E v \in OtherVersions : BkFaultVersion(v)
    \/ BkFaultFlag
    \/ \E field \in B64Fields, how \in {"badchar", "truncate"} : BkFaultBase64(field, how)
    \/ \E pos \in 1..(MaxLen + TAG_LEN), bit \in CorruptBits : BkFaultCiphertext(pos, bit)
    \/ \E pw2 \in Passwords : BkDecrypt(pw2)

(***************************************************************************)
(* serde_json.  A JSON object is the sequence of its <<key, value>>        *)
(* members in the order serde writes them.  Every value is a sequence of   *)
(* numbers: <<v>> for a string, a number or a boolean (0, 1), <<>> for     *)
(* null, any length for an array.                                          *)
(***************************************************************************)
BoolNum(b) == IF b THEN 1 ELSE 0

JsonMember(doc, key) ==
    LET hits == {i \in 1..Len(doc) : doc[i][1] = key}
    IN  IF hits = {} THEN Err("missing field")
        ELSE Ok(doc[CHOOSE i \in hits : \A j \in hits : i <= j][2])

\* A String or a number.
JsonScalar(doc, key) ==
    LET m == JsonMember(doc, key)
    IN  IF m.ok /\ Len(m.val) = 1 THEN Ok(m.val[1]) ELSE Err("invalid type")

\* A bool.
JsonBool(doc, key) ==
    LET m == JsonScalar(doc, key)
    IN  IF m.ok /\ m.val \in {0, 1} THEN Ok(m.val = 1) ELSE Err("invalid type")

\* An Option<String>: null and a missing member are None.
JsonOption(doc, key) ==
    LET m == JsonMember(doc, key)
    IN  IF ~m.ok THEN Ok(<<>>)
        ELSE IF Len(m.val) <= 1 THEN m ELSE Err("invalid type")

(***************************************************************************)
(* The domain records (models.rs) with the fields the storage manager      *)
(* copies into index columns, and their JSON.                              *)
(***************************************************************************)
\* serde_json::to_vec(&PeptideProtocol)
ProtocolToJson(p) ==
    << <<"id", <<p.id>>>>, <<"name", <<p.name>>>>,
       <<"updated_at", <<p.updated_at>>>>,
       <<"is_favorite", <<BoolNum(p.is_favorite)>>>>,
       <<"tags", p.tags>> >>

\* serde_json::from_slice::<PeptideProtocol>; is_favorite is #[serde(default)].
ProtocolFromJson(doc) ==
    LET id == JsonScalar(doc, "id")
        name == JsonScalar(doc, "name")
        updated_at == JsonScalar(doc, "updated_at")
        is_favorite == IF JsonMember(doc, "is_favorite").ok
                       THEN JsonBool(doc, "is_favorite") ELSE Ok(FALSE)
        tags == JsonMember(doc, "tags")
    IN  IF id.ok /\ name.ok /\ updated_at.ok /\ is_favorite.ok /\ tags.ok
        THEN Ok([id |-> id.val, name |-> name.val, updated_at |-> updated_at.val,
                 is_favorite |-> is_favorite.val, tags |-> tags.val])
        ELSE Err("Failed to deserialize protocol")

\* serde_json::to_vec(&DoseLog)
DoseLogToJson(l) ==
    << <<"id", <<l.id>>>>, <<"protocol_id", <<l.protocol_id>>>>,
       <<"logged_at", <<l.logged_at>>>> >>

DoseLogFromJson(doc) ==
    LET id == JsonScalar(doc, "id")
        protocol_id == JsonScalar(doc, "protocol_id")
        logged_at == JsonScalar(doc, "logged_at")
    IN  IF id.ok /\ protocol_id.ok /\ logged_at.ok
        THEN Ok([id |-> id.val, protocol_id |-> protocol_id.val,
                 logged_at |-> logged_at.val])
        ELSE Err("Failed to deserialize dose log")

\* serde_json::to_vec(&Supplier)
SupplierToJson(s) ==
    << <<"id", <<s.id>>>>, <<"name", <<s.name>>>>,
       <<"updated_at", <<s.updated_at>>>> >>

SupplierFromJson(doc) ==
    LET id == JsonScalar(doc, "id")
        name == JsonScalar(doc, "name")
        updated_at == JsonScalar(doc, "updated_at")
    IN  IF id.ok /\ name.ok /\ updated_at.ok
        THEN Ok([id |-> id.val, name |-> name.val, updated_at |-> updated_at.val])
        ELSE Err("Failed to deserialize supplier")

\* serde_json::to_vec(&InventoryItem); supplier_id is an Option<String>.
InventoryItemToJson(it) ==
    << <<"id", <<it.id>>>>, <<"protocol_id", <<it.protocol_id>>>>,
       <<"supplier_id", it.supplier_id>>,
       <<"updated_at", <<it.updated_at>>>> >>

InventoryItemFromJson(doc) ==
    LET id == JsonScalar(doc, "id")
        protocol_id == JsonScalar(doc, "protocol_id")
        supplier_id == JsonOption(doc, "supplier_id")
        updated_at == JsonScalar(doc, "updated_at")
    IN  IF id.ok /\ protocol_id.ok /\ supplier_id.ok /\ updated_at.ok
        THEN Ok([id |-> id.val, protocol_id |-> protocol_id.val,
                 supplier_id |-> supplier_id.val, updated_at |-> updated_at.val])
        ELSE Err("Failed to deserialize inventory item")

\* serde_json::to_vec(&PriceHistory)
PriceHistoryToJson(e) ==
    << <<"id", <<e.id>>>>, <<"supplier_id", <<e.supplier_id>>>>,
       <<"peptide_name", <<e.peptide_name>>>>,
       <<"cost_per_mg", <<e.cost_per_mg>>>>,
       <<"recorded_at", <<e.recorded_at>>>> >>

PriceHistoryFromJson(doc) ==
    LET id == JsonScalar(doc, "id")
        supplier_id == JsonScalar(doc, "supplier_id")
        peptide_name == JsonScalar(doc, "peptide_name")
        cost_per_mg == JsonScalar(doc, "cost_per_mg")
        recorded_at == JsonScalar(doc, "recorded_at")
    IN  IF id.ok /\ supplier_id.ok /\ peptide_name.ok /\ cost_per_mg.ok /\ recorded_at.ok
        THEN Ok([id |-> id.val, supplier_id |-> supplier_id.val,
                 peptide_name |-> peptide_name.val, cost_per_mg |-> cost_per_mg.val,
                 recorded_at |-> recorded_at.val])
        ELSE Err("Failed to deserialize price history")

\* serde_json::to_vec(&Alert)
AlertToJson(a) ==
    << <<"id", <<a.id>>>>, <<"is_read", <<BoolNum(a.is_read)>>>>,
       <<"is_dismissed", <<BoolNum(a.is_dismissed)>>>>,
       <<"created_at", <<a.created_at>>>> >>

AlertFromJson(doc) ==
    LET id == JsonScalar(doc, "id")
        is_read == JsonBool(doc, "is_read")
        is_dismissed == JsonBool(doc, "is_dismissed")
        created_at == JsonScalar(doc, "created_at")
    IN  IF id.ok /\ is_read.ok /\ is_dismissed.ok /\ created_at.ok
        THEN Ok([id |-> id.val, is_read |-> is_read.val,
                 is_dismissed |-> is_dismissed.val, created_at |-> created_at.val])
        ELSE Err("Failed to deserialize alert")

\* serde_json::to_vec(&BodyMetric)
BodyMetricToJson(b) ==
    << <<"id", <<b.id>>>>, <<"date", <<b.date>>>>,
       <<"created_at", <<b.created_at>>>>,
       <<"updated_at", <<b.updated_at>>>> >>

BodyMetricFromJson(doc) ==
    LET id == JsonScalar(doc, "id")
        date == JsonScalar(doc, "date")
        created_at == JsonScalar(doc, "created_at")
        updated_at == JsonScalar(doc, "updated_at")
    IN  IF id.ok /\ date.ok /\ created_at.ok /\ updated_at.ok
        THEN Ok([id |-> id.val, date |-> date.val, created_at |-> created_at.val,
                 updated_at |-> updated_at.val])
        ELSE Err("Failed to deserialize body metric")

(***************************************************************************)
(* EnvelopeEncryption as the storage manager uses it.  The byte level is   *)
(* the envelope specification above; here a sealed payload is the term     *)
(* "plaintext under the key of sealed_by", and damage to any of its bytes  *)
(* on disk is the flag `damaged`.  EnvelopeAbstraction states that the     *)
(* byte-level open agrees with EnvelopeOpen on this term.                  *)
(***************************************************************************)
\* self.encryption.seal(&payload)
EnvelopeSeal(inst, plaintext) ==
    LET km == key_material(inst)
    IN  IF ~km.ok THEN km
        ELSE Ok([sealed_by |-> inst, plaintext |-> plaintext, damaged |-> FALSE])

\* self.encryption.open(blob)
EnvelopeOpen(inst, blob) ==
    LET km == key_material(inst)
    IN  IF ~km.ok THEN km
        ELSE IF blob.damaged \/ ~SameKey(inst, blob.sealed_by)
        THEN Err("decryption failed: aead::Error")
        ELSE Ok(blob.plaintext)

\* The byte-level result of open is the result of EnvelopeOpen on the term.
EnvelopeAbstraction ==
    opened.by # 0 =>
        LET r == EnvelopeOpen(opened.by, [sealed_by |-> sealedBy, plaintext |-> sealedPt,
                                          damaged |-> tamper # <<>>])
        IN  opened.ok = r.ok /\ opened.val = r.val /\ opened.err = r.err

\* The provider instance in StorageConfig.key_provider.
StoreKey == 1

(***************************************************************************)
(* The database file: one table per entity, a table being the function     *)
(* from the ids of its rows to the rows.                                   *)
(***************************************************************************)
NoRows == <<>>

Insert(tbl, id, row) ==
    [x \in (DOMAIN tbl) \cup {id} |-> IF x = id THEN row ELSE tbl[x]]

Delete(tbl, gone) == [x \in (DOMAIN tbl) \ gone |-> tbl[x]]

\* The rows of a table in ORDER BY order: ascending key, ties by id.
RECURSIVE SeqByKey(_, _)
SeqByKey(S, k) ==
    IF S = {} THEN <<>>
    ELSE LET x == CHOOSE x \in S : \A y \in S : k[x] < k[y] \/ (k[x] = k[y] /\ x <= y)
         IN  <<x>> \o SeqByKey(S \ {x}, k)

\* The state initialize() leaves behind: every table exists and is empty.
EmptyDb ==
    [protocols |-> NoRows, dose_logs |-> NoRows, suppliers |-> NoRows,
     inventory |-> NoRows, price_history |-> NoRows, alerts |-> NoRows,
     body_metrics |-> NoRows, dose_schedules |-> NoRows, literature_cache |-> NoRows]

\* What a storage function returns: the database it leaves and its Result.
Done(d, v) == [ok |-> TRUE, db |-> d, val |-> v, err |-> ""]
Fail(d, e) == [ok |-> FALSE, db |-> d, val |-> <<>>, err |-> e]

\* while let Some(row) = rows.next()? { out.push(decode(&blob)?) }: the first
\* row that does not decode ends the read with its error.
DecodeRows(decoded) ==
    LET bad == {i \in 1..Len(decoded) : ~decoded[i].ok}
    IN  IF bad # {}
        THEN Err(decoded[CHOOSE i \in bad : \A j \in bad : i <= j].err)
        ELSE Ok([i \in 1..Len(decoded) |-> decoded[i].val])

(***************************************************************************)
(* Protocols.                                                              *)
(***************************************************************************)
decode_protocol(blob) ==
    LET decrypted == EnvelopeOpen(StoreKey, blob)
    IN  IF ~decrypted.ok THEN decrypted ELSE ProtocolFromJson(decrypted.val)

\* A mutation of upsert_protocol: INSERT OR IGNORE, an existing row stays.
upsert_protocol_insert_only(d, protocol, locked) ==
    IF locked THEN [ok |-> FALSE, db |-> d, val |-> <<>>, err |-> "Failed to upsert protocol"]
    ELSE IF protocol.id \in DOMAIN d.protocols
         THEN [ok |-> TRUE, db |-> d, val |-> <<>>, err |-> ""]
    ELSE [ok |-> TRUE, val |-> <<>>, err |-> "",
          db |-> [d EXCEPT !.protocols =
                     [x \in (DOMAIN @) \cup {protocol.id} |->
                         IF x = protocol.id
                         THEN [name |-> protocol.name,
                               payload |-> EnvelopeSeal(StoreKey, ProtocolToJson(protocol)).val,
                               updated_at |-> protocol.updated_at,
                               is_favorite |-> IF protocol.is_favorite THEN 1 ELSE 0]
                         ELSE @[x]]]]

\* INSERT ... ON CONFLICT(id) DO UPDATE SET name, payload, updated_at,
\* is_favorite.  `locked` is conn.execute failing because the file stayed
\* locked for longer than busy_timeout.
upsert_protocol(d, protocol, locked) ==
    LET payload == ProtocolToJson(protocol)
        encrypted == EnvelopeSeal(StoreKey, payload)
    IN  IF ~encrypted.ok THEN Fail(d, encrypted.err)
        ELSE IF locked THEN Fail(d, "Failed to upsert protocol")
        ELSE Done([d EXCEPT !.protocols =
                       Insert(@, protocol.id,
                              [name |-> protocol.name,
                               payload |-> encrypted.val,
                               updated_at |-> protocol.updated_at,
                               is_favorite |-> BoolNum(protocol.is_favorite)])],
                  <<>>)

\* SELECT payload FROM protocols ORDER BY is_favorite DESC, updated_at DESC
list_protocols(d) ==
    LET rows == d.protocols
        order == SeqByKey(DOMAIN rows,
                          [id \in DOMAIN rows |->
                              0 - (1000 * rows[id].is_favorite + rows[id].updated_at)])
    IN  DecodeRows([i \in 1..Len(order) |-> decode_protocol(rows[order[i]].payload)])

\* SELECT payload FROM protocols WHERE id = ?1: Ok(Some), Ok(None) or the
\* decode error.
get_protocol(d, protocol_id) ==
    IF protocol_id \in DOMAIN d.protocols
    THEN LET p == decode_protocol(d.protocols[protocol_id].payload)
         IN  IF p.ok THEN Ok(<<p.val>>) ELSE p
    ELSE Ok(<<>>)

Contains(seq, x) == \E i \in 1..Len(seq) : seq[i] = x

\* One turn of the loop of bulk_add_tag_to_protocols, `got` being what
\* get_protocol returned: if let Ok(Some(mut protocol)) and the tag is not there
\* yet, push it and upsert; the Result says whether modified_count grows.
BulkAddTagStep(d, got, protocol_id, tag, now, locked) ==
    IF got.ok /\ Len(got.val) = 1 /\ ~Contains(got.val[1].tags, tag)
    THEN upsert_protocol(d, [got.val[1] EXCEPT !.tags = Append(@, tag),
                                              !.updated_at = now],
                         protocol_id \in locked)
    ELSE Fail(d, "")

RECURSIVE BulkAddTagStopAtFailure(_, _, _, _, _, _, _)
RECURSIVE BulkAddTagFrom(_, _, _, _, _, _, _)

\* A bulk tag-add that gives up at the first record it does not change.
BulkAddTagStopAtFailureNext(up, protocol_ids, i, tag, now, locked, modified_count) ==
    BulkAddTagStopAtFailure(up.db, protocol_ids,
                            IF up.ok THEN i + 1 ELSE Len(protocol_ids) + 1,
                            tag, now, locked, modified_count + BoolNum(up.ok))

BulkAddTagStopAtFailure(d, protocol_ids, i, tag, now, locked, modified_count) ==
    IF i > Len(protocol_ids) THEN [db |-> d, val |-> modified_count]
    ELSE BulkAddTagStopAtFailureNext(
             BulkAddTagStep(d, get_protocol(d, protocol_ids[i]), protocol_ids[i],
                            tag, now, locked),
             protocol_ids, i, tag, now, locked, modified_count)

\* if self.upsert_protocol(&protocol).is_ok() { modified_count += 1 }, and on
\* to the next id.
BulkAddTagNext(up, protocol_ids, i, tag, now, locked, modified_count) ==
    BulkAddTagFrom(up.db, protocol_ids, i + 1, tag, now, locked,
                   modified_count + BoolNum(up.ok))

\* for protocol_id in protocol_ids { ... } of bulk_add_tag_to_protocols, from
\* the i-th id on: the database it leaves and modified_count.
BulkAddTagFrom(d, protocol_ids, i, tag, now, locked, modified_count) ==
    IF i > Len(protocol_ids) THEN [db |-> d, val |-> modified_count]
    ELSE BulkAddTagNext(
             BulkAddTagStep(d, get_protocol(d, protocol_ids[i]), protocol_ids[i],
                            tag, now, locked),
             protocol_ids, i, tag, now, locked, modified_count)

BulkResult(r) == [ok |-> TRUE, db |-> r.db, val |-> r.val, err |-> ""]

bulk_add_tag_to_protocols(d, protocol_ids, tag, now, locked) ==
    IF protocol_ids = <<>> THEN Done(d, 0)
    ELSE BulkResult(BulkAddTagFrom(d, protocol_ids, 1, tag, now, locked, 0))

\* One turn of the loop of bulk_toggle_favorite_protocols: if let
\* Ok(Some(mut protocol)) and the status is different, set it and upsert.
BulkToggleFavoriteStep(d, got, protocol_id, is_favorite, now, locked) ==
    IF got.ok /\ Len(got.val) = 1 /\ got.val[1].is_favorite # is_favorite
    THEN upsert_protocol(d, [got.val[1] EXCEPT !.is_favorite = is_favorite,
                                              !.updated_at = now],
                         protocol_id \in locked)
    ELSE Fail(d, "")

RECURSIVE BulkToggleFavoriteFrom(_, _, _, _, _, _, _)

\* if self.upsert_protocol(&protocol).is_ok() { modified_count += 1 }, and on
\* to the next id.
BulkToggleFavoriteNext(up, protocol_ids, i, is_favorite, now, locked, modified_count) ==
    BulkToggleFavoriteFrom(up.db, protocol_ids, i + 1, is_favorite, now, locked,
                           modified_count + BoolNum(up.ok))

\* for protocol_id in protocol_ids { ... } of bulk_toggle_favorite_protocols.
BulkToggleFavoriteFrom(d, protocol_ids, i, is_favorite, now, locked, modified_count) ==
    IF i > Len(protocol_ids) THEN [db |-> d, val |-> modified_count]
    ELSE BulkToggleFavoriteNext(
             BulkToggleFavoriteStep(d, get_protocol(d, protocol_ids[i]), protocol_ids[i],
                                    is_favorite, now, locked),
             protocol_ids, i, is_favorite, now, locked, modified_count)

bulk_toggle_favorite_protocols(d, protocol_ids, is_favorite, now, locked) ==
    IF protocol_ids = <<>> THEN Done(d, 0)
    ELSE BulkResult(BulkToggleFavoriteFrom(d, protocol_ids, 1, is_favorite, now, locked, 0))

(***************************************************************************)
(* Suppliers and price history; compare_prices of the analytics commands.  *)
(***************************************************************************)
decode_supplier(blob) ==
    LET decrypted == EnvelopeOpen(StoreKey, blob)
    IN  IF ~decrypted.ok THEN decrypted ELSE SupplierFromJson(decrypted.val)

decode_price_history(blob) ==
    LET decrypted == EnvelopeOpen(StoreKey, blob)
    IN  IF ~decrypted.ok THEN decrypted ELSE PriceHistoryFromJson(decrypted.val)

\* INSERT ... ON CONFLICT(id) DO UPDATE SET name, payload, updated_at
upsert_supplier(d, supplier) ==
    LET payload == SupplierToJson(supplier)
        encrypted == EnvelopeSeal(StoreKey, payload)
    IN  IF ~encrypted.ok THEN Fail(d, encrypted.err)
        ELSE Done([d EXCEPT !.suppliers =
                       Insert(@, supplier.id,
                              [name |-> supplier.name,
                               payload |-> encrypted.val,
                               updated_at |-> supplier.updated_at])],
                  <<>>)

\* SELECT payload FROM suppliers ORDER BY name ASC
list_suppliers(d) ==
    LET rows == d.suppliers
        order == SeqByKey(DOMAIN rows, [id \in DOMAIN rows |-> rows[id].name])
    IN  DecodeRows([i \in 1..Len(order) |-> decode_supplier(rows[order[i]].payload)])

\* A plain INSERT: the id must be new and the supplier must exist.
add_price_history(d, entry) ==
    LET payload == PriceHistoryToJson(entry)
        encrypted == EnvelopeSeal(StoreKey, payload)
    IN  IF ~encrypted.ok THEN Fail(d, encrypted.err)
        ELSE IF entry.id \in DOMAIN d.price_history
                \/ entry.supplier_id \notin DOMAIN d.suppliers
        THEN Fail(d, "Failed to add price history")
        ELSE Done([d EXCEPT !.price_history =
                       Insert(@, entry.id,
                              [supplier_id |-> entry.supplier_id,
                               peptide_name |-> entry.peptide_name,
                               payload |-> encrypted.val,
                               recorded_at |-> entry.recorded_at])],
                  <<>>)

\* SELECT payload FROM price_history WHERE supplier_id = ?1 AND
\* peptide_name = ?2 ORDER BY recorded_at DESC LIMIT 1
get_latest_price(d, supplier_id, peptide_name) ==
    LET rows == d.price_history
        hits == {id \in DOMAIN rows : /\ rows[id].supplier_id = supplier_id
                                      /\ rows[id].peptide_name = peptide_name}
        order == SeqByKey(hits, [id \in hits |-> 0 - rows[id].recorded_at])
    IN  IF hits = {} THEN Ok(<<>>)
        ELSE LET e == decode_price_history(rows[order[1]].payload)
             IN  IF e.ok THEN Ok(<<e.val>>) ELSE e

\* for supplier in suppliers { if let Ok(Some(price_entry)) = ... } of
\* compare_prices: the suppliers whose latest price was pushed.
RECURSIVE SupplierPricesFrom(_, _, _, _)
SupplierPricesFrom(d, suppliers, i, peptide_name) ==
    IF i > Len(suppliers) THEN <<>>
    ELSE LET got == get_latest_price(d, suppliers[i].id, peptide_name)
             rest == SupplierPricesFrom(d, suppliers, i + 1, peptide_name)
         IN  IF got.ok /\ Len(got.val) = 1
             THEN <<[supplier_id |-> suppliers[i].id,
                     cost_per_mg |-> got.val[1].cost_per_mg]>> \o rest
             ELSE rest

compare_prices(d, peptide_name) ==
    LET suppliers == list_suppliers(d)
    IN  IF ~suppliers.ok THEN Err("Failed to list suppliers")
        ELSE LET supplier_prices == SupplierPricesFrom(d, suppliers.val, 1, peptide_name)
             IN  IF supplier_prices = <<>> THEN Err("No price data found")
                 ELSE Ok(supplier_prices)

(***************************************************************************)
(* Dose logs, body metrics, inventory and alerts.                          *)
(***************************************************************************)
decode_dose_log(blob) ==
    LET decrypted == EnvelopeOpen(StoreKey, blob)
    IN  IF ~decrypted.ok THEN decrypted ELSE DoseLogFromJson(decrypted.val)

decode_inventory_item(blob) ==
    LET decrypted == EnvelopeOpen(StoreKey, blob)
    IN  IF ~decrypted.ok THEN decrypted ELSE InventoryItemFromJson(decrypted.val)

decode_alert(blob) ==
    LET decrypted == EnvelopeOpen(StoreKey, blob)
    IN  IF ~decrypted.ok THEN decrypted ELSE AlertFromJson(decrypted.val)

\* self.encryption.open(&blob)? and serde_json::from_slice in list_body_metrics
decode_body_metric(blob) ==
    LET decrypted == EnvelopeOpen(StoreKey, blob)
    IN  IF ~decrypted.ok THEN decrypted ELSE BodyMetricFromJson(decrypted.val)

\* INSERT INTO dose_logs ... ON CONFLICT(id) DO UPDATE SET payload, logged_at.
\* A new row needs its protocol (foreign_keys=ON); on a conflict the row keeps
\* the protocol_id column it has.
append_dose_log(d, log) ==
    LET payload == DoseLogToJson(log)
        encrypted == EnvelopeSeal(StoreKey, payload)
    IN  IF ~encrypted.ok THEN Fail(d, encrypted.err)
        ELSE IF log.id \in DOMAIN d.dose_logs
        THEN Done([d EXCEPT !.dose_logs[log.id].payload = encrypted.val,
                            !.dose_logs[log.id].logged_at = log.logged_at],
                  <<>>)
        ELSE IF log.protocol_id \notin DOMAIN d.protocols
        THEN Fail(d, "Failed to append dose log")
        ELSE Done([d EXCEPT !.dose_logs =
                       Insert(@, log.id,
                              [protocol_id |-> log.protocol_id,
                               payload |-> encrypted.val,
                               logged_at |-> log.logged_at])],
                  <<>>)

\* SELECT payload FROM dose_logs ORDER BY logged_at DESC
list_dose_logs(d) ==
    LET rows == d.dose_logs
        order == SeqByKey(DOMAIN rows, [id \in DOMAIN rows |-> 0 - rows[id].logged_at])
    IN  DecodeRows([i \in 1..Len(order) |-> decode_dose_log(rows[order[i]].payload)])

\* INSERT INTO body_metrics ... ON CONFLICT(id) DO UPDATE SET date, payload,
\* updated_at: on a conflict the row keeps the created_at column it has.
upsert_body_metric(d, metric) ==
    LET payload == BodyMetricToJson(metric)
        encrypted == EnvelopeSeal(StoreKey, payload)
    IN  IF ~encrypted.ok THEN Fail(d, encrypted.err)
        ELSE IF metric.id \in DOMAIN d.body_metrics
        THEN Done([d EXCEPT !.body_metrics[metric.id].date = metric.date,
                            !.body_metrics[metric.id].payload = encrypted.val,
                            !.body_metrics[metric.id].updated_at = metric.updated_at],
                  <<>>)
        ELSE Done([d EXCEPT !.body_metrics =
                       Insert(@, metric.id,
                              [date |-> metric.date,
                               payload |-> encrypted.val,
                               created_at |-> metric.created_at,
                               updated_at |-> metric.updated_at])],
                  <<>>)

\* SELECT payload FROM body_metrics ORDER BY date DESC
list_body_metrics(d) ==
    LET rows == d.body_metrics
        order == SeqByKey(DOMAIN rows, [id \in DOMAIN rows |-> 0 - rows[id].date])
    IN  DecodeRows([i \in 1..Len(order) |-> decode_body_metric(rows[order[i]].payload)])

\* INSERT INTO inventory ... ON CONFLICT(id) DO UPDATE SET protocol_id,
\* supplier_id, payload, updated_at.  The protocol must exist, and the
\* supplier unless supplier_id is NULL.
upsert_inventory_item(d, item) ==
    LET payload == InventoryItemToJson(item)
        encrypted == EnvelopeSeal(StoreKey, payload)
    IN  IF ~encrypted.ok THEN Fail(d, encrypted.err)
        ELSE IF \/ item.protocol_id \notin DOMAIN d.protocols
                \/ \E i \in 1..Len(item.supplier_id) :
                      item.supplier_id[i] \notin DOMAIN d.suppliers
        THEN Fail(d, "Failed to upsert inventory item")
        ELSE Done([d EXCEPT !.inventory =
                       Insert(@, item.id,
                              [protocol_id |-> item.protocol_id,
                               supplier_id |-> item.supplier_id,
                               payload |-> encrypted.val,
                               updated_at |-> item.updated_at])],
                  <<>>)

\* supplier_id TEXT REFERENCES suppliers(id) ON DELETE SET NULL
SetNullSupplier(inventory, supplier_id) ==
    [x \in DOMAIN inventory |->
        IF inventory[x].supplier_id = <<supplier_id>>
        THEN [inventory[x] EXCEPT !.supplier_id = <<>>]
        ELSE inventory[x]]

\* DELETE FROM suppliers WHERE id = ?1, with the price history that cascades
\* and the inventory rows that are set to NULL.  Deleting no row is Ok.
delete_supplier(d, supplier_id) ==
    Done([d EXCEPT !.suppliers = Delete(@, {supplier_id}),
                   !.inventory = SetNullSupplier(@, supplier_id),
                   !.price_history =
                       Delete(@, {x \in DOMAIN d.price_history :
                                     d.price_history[x].supplier_id = supplier_id})],
         <<>>)

\* A plain INSERT INTO alerts: the id must be new.
create_alert(d, alert) ==
    LET payload == AlertToJson(alert)
        encrypted == EnvelopeSeal(StoreKey, payload)
    IN  IF ~encrypted.ok THEN Fail(d, encrypted.err)
        ELSE IF alert.id \in DOMAIN d.alerts THEN Fail(d, "Failed to create alert")
        ELSE Done([d EXCEPT !.alerts =
                       Insert(@, alert.id,
                              [payload |-> encrypted.val,
                               is_read |-> BoolNum(alert.is_read),
                               is_dismissed |-> BoolNum(alert.is_dismissed),
                               created_at |-> alert.created_at])],
                  <<>>)

\* SELECT payload FROM alerts [WHERE is_dismissed = 0] ORDER BY created_at DESC
list_alerts(d, include_dismissed) ==
    LET rows == d.alerts
        hits == {id \in DOMAIN rows : include_dismissed \/ rows[id].is_dismissed = 0}
        order == SeqByKey(hits, [id \in hits |-> 0 - rows[id].created_at])
    IN  DecodeRows([i \in 1..Len(order) |-> decode_alert(rows[order[i]].payload)])

\* UPDATE alerts SET is_read = 1 WHERE id = ?1
mark_alert_read(d, alert_id) ==
    IF alert_id \in DOMAIN d.alerts
    THEN Done([d EXCEPT !.alerts[alert_id].is_read = 1], <<>>)
    ELSE Done(d, <<>>)

\* UPDATE alerts SET is_dismissed = 1 WHERE id = ?1
dismiss_alert(d, alert_id) ==
    IF alert_id \in DOMAIN d.alerts
    THEN Done([d EXCEPT !.alerts[alert_id].is_dismissed = 1], <<>>)
    ELSE Done(d, <<>>)

(***************************************************************************)
(* Dose schedules (commands/schedules.rs) and the bulk deletes.            *)
(***************************************************************************)
\* create_dose_schedule: the protocol must be there and readable, then a
\* plain INSERT INTO dose_schedules under a fresh uuid.
create_dose_schedule(d, id, protocol_id) ==
    LET protocol == get_protocol(d, protocol_id)
    IN  IF ~protocol.ok THEN Fail(d, "Failed to get protocol")
        ELSE IF protocol.val = <<>> THEN Fail(d, "Protocol not found")
        ELSE Done([d EXCEPT !.dose_schedules =
                       Insert(@, id, [protocol_id |-> protocol_id])],
                  <<>>)

BulkDeleteOps == {"bulk_delete_protocols", "bulk_delete_doses", "bulk_delete_body_metrics"}

\* The table a bulk delete works on.
TableOf(op) ==
    CASE op = "bulk_delete_protocols" -> "protocols"
      [] op = "bulk_delete_doses" -> "dose_logs"
      [] OTHER -> "body_metrics"

\* The rows that reference one of the protocols.
Referencing(tbl, protocol_ids) ==
    {x \in DOMAIN tbl : tbl[x].protocol_id \in protocol_ids}

\* DELETE FROM protocols WHERE id = ?1 under foreign_keys=ON: dose_logs and
\* inventory cascade; dose_schedules declares no ON DELETE action, so a
\* schedule of the protocol makes the statement fail.
delete_from_protocols(d, protocol_id) ==
    IF protocol_id \notin DOMAIN d.protocols THEN Done(d, 0)
    ELSE IF Referencing(d.dose_schedules, {protocol_id}) # {}
    THEN Fail(d, "FOREIGN KEY constraint failed")
    ELSE Done([d EXCEPT !.protocols = Delete(@, {protocol_id}),
                        !.dose_logs = Delete(@, Referencing(d.dose_logs, {protocol_id})),
                        !.inventory = Delete(@, Referencing(d.inventory, {protocol_id}))],
              1)

\* DELETE FROM dose_logs / body_metrics WHERE id = ?1
delete_from(d, table, id) ==
    IF id \notin DOMAIN d[table] THEN Done(d, 0)
    ELSE Done([d EXCEPT ![table] = Delete(@, {id})], 1)

\* stmt.execute(params![id]) of a bulk delete; `busy` is the file staying
\* locked by another connection for longer than busy_timeout.
stmt_execute(op, d, id, busy) ==
    IF busy THEN Fail(d, "database is locked")
    ELSE IF op = "bulk_delete_protocols" THEN delete_from_protocols(d, id)
    ELSE delete_from(d, TableOf(op), id)

\* A transaction that is dropped without commit is kept as if committed.
rollback_keeps_work(committed, work) == work

\* `?` leaves the function with the Transaction still open: it is dropped,
\* and dropping rolls back.
rollback(committed, work) == committed

(***************************************************************************)
(* Single deletes and the inventory read.                                  *)
(***************************************************************************)
\* conn.execute("DELETE FROM protocols WHERE id = ?1").context(..)?, then
\* rows_affected == 0 is "Protocol not found".
delete_protocol(d, protocol_id) ==
    LET deleted == delete_from_protocols(d, protocol_id)
    IN  IF ~deleted.ok THEN Fail(d, "Failed to delete protocol")
        ELSE IF deleted.val = 0 THEN Fail(d, "Protocol not found")
        ELSE Done(deleted.db, <<>>)

\* SELECT payload FROM inventory WHERE id = ?1: Ok(Some), Ok(None) or the
\* decode error.
get_inventory_item(d, item_id) ==
    IF item_id \in DOMAIN d.inventory
    THEN LET item == decode_inventory_item(d.inventory[item_id].payload)
         IN  IF item.ok THEN Ok(<<item.val>>) ELSE item
    ELSE Ok(<<>>)

(***************************************************************************)
(* The database file: connection settings, schema and integrity            *)
(* (db.rs open_connection, initialize, run_migrations, health_check)       *)
(***************************************************************************)

SCHEMA_VERSION == 2

NoConn == [journal_mode |-> "none", synchronous |-> "none",
           foreign_keys |-> FALSE, secure_delete |-> FALSE]

\* rusqlite Connection::open: the settings SQLite gives a new connection;
\* only the journal mode is a property of the file.
ConnectionOpen(f) ==
    [journal_mode |-> IF f.wal THEN "wal" ELSE "delete",
     synchronous |-> "FULL", foreign_keys |-> FALSE, secure_delete |-> FALSE]

\* A mutation of open_connection: the connection is handed out as opened.
open_connection_defaults(f) == [file |-> f, conn |-> ConnectionOpen(f)]

\* open_connection: Connection::open, then the batch of PRAGMAs, which
\* also stamps user_version with SCHEMA_VERSION on every open.
open_connection(f) ==
    [file |-> [f EXCEPT !.wal = TRUE, !.user_version = SCHEMA_VERSION],
     conn |-> [ConnectionOpen(f) EXCEPT !.journal_mode = "wal",
                                        !.synchronous = "FULL",
                                        !.foreign_keys = TRUE,
                                        !.secure_delete = TRUE]]

\* The statements of initialize's batch, in their order.
InitializeBatch ==
    << <<"table", "protocols">>, <<"table", "dose_logs">>,
       <<"table", "literature_cache">>, <<"table", "suppliers">>,
       <<"table", "inventory">>, <<"table", "price_history">>,
       <<"index", "idx_price_history_supplier_peptide">>,
       <<"index", "idx_protocols_favorite">>,
       <<"table", "alerts">>, <<"index", "idx_alerts_not_dismissed">>,
       <<"table", "summary_history">>,
       <<"index", "idx_summary_history_created">>,
       <<"table", "body_metrics">>, <<"index", "idx_body_metrics_date">> >>

\* CREATE TABLE IF NOT EXISTS: a new protocols table has the is_favorite
\* column, an existing table is left as it is.
CreateTableIfNotExists(f, name) ==
    IF name \in f.tables THEN f
    ELSE [f EXCEPT !.tables = @ \cup {name},
                   !.is_favorite = IF name = "protocols" THEN TRUE ELSE @]

\* execute_batch: statements run in order, each one autocommitted; the
\* first failing statement ends the batch and keeps what ran before it.
\* idx_protocols_favorite needs the is_favorite column.
RECURSIVE execute_batch(_, _, _)
execute_batch(f, batch, i) ==
    IF i > Len(batch) THEN [ok |-> TRUE, file |-> f]
    ELSE IF batch[i][1] = "table"
         THEN execute_batch(CreateTableIfNotExists(f, batch[i][2]), batch, i + 1)
    ELSE IF batch[i][2] \in f.indexes THEN execute_batch(f, batch, i + 1)
    ELSE IF batch[i][2] = "idx_protocols_favorite" /\ ~f.is_favorite
         THEN [ok |-> FALSE, file |-> f]
    ELSE execute_batch([f EXCEPT !.indexes = @ \cup {batch[i][2]}], batch, i + 1)

\* A mutation of run_migrations: the column is added without looking,
\* which SQLite refuses when the column is there.
run_migrations_unconditional(f) ==
    IF f.is_favorite THEN [ok |-> FALSE, file |-> f]
    ELSE [ok |-> TRUE, file |-> [f EXCEPT !.is_favorite = TRUE]]

\* run_migrations: adds is_favorite when pragma_table_info lacks it.
run_migrations(f) ==
    IF ~f.is_favorite THEN [ok |-> TRUE, file |-> [f EXCEPT !.is_favorite = TRUE]]
    ELSE [ok |-> TRUE, file |-> f]

\* initialize, after its open_connection: the batch, then the migrations.
InitializeOn(o) ==
    IF ~execute_batch(o.file, InitializeBatch, 1).ok
    THEN [ok |-> FALSE, conn |-> o.conn,
          file |-> execute_batch(o.file, InitializeBatch, 1).file]
    ELSE [ok |-> run_migrations(execute_batch(o.file, InitializeBatch, 1).file).ok,
          conn |-> o.conn,
          file |-> run_migrations(execute_batch(o.file, InitializeBatch, 1).file).file]

initialize(f) == InitializeOn(open_connection(f))

\* health_check: PRAGMA quick_check, journal_mode and foreign_keys read on
\* a connection of this manager.
health_check(f) ==
    [is_healthy |-> ~open_connection(f).file.corrupt,
     wal_mode |-> open_connection(f).conn.journal_mode = "wal",
     foreign_keys_enabled |-> open_connection(f).conn.foreign_keys]

\* verify_integrity: an error exactly when quick_check is not "ok"; the
\* other two findings are only logged.
verify_integrity(f) == health_check(f).is_healthy

\* serde_json::to_vec(&LiteratureEntry)
LiteratureToJson(e) ==
    << <<"id", <<e.id>>>>, <<"source", <<e.source>>>>, <<"title", <<e.title>>>>,
       <<"url", e.url>>, <<"indexed_at", <<e.indexed_at>>>> >>

\* serde_json::from_slice::<LiteratureEntry>; url is an Option<String>.
LiteratureFromJson(doc) ==
    LET id == JsonScalar(doc, "id")
        source == JsonScalar(doc, "source")
        title == JsonScalar(doc, "title")
        url == JsonOption(doc, "url")
        indexed_at == JsonScalar(doc, "indexed_at")
    IN  IF id.ok /\ source.ok /\ title.ok /\ url.ok /\ indexed_at.ok
        THEN Ok([id |-> id.val, source |-> source.val, title |-> title.val,
                 url |-> url.val, indexed_at |-> indexed_at.val])
        ELSE Err("Failed to deserialize literature entry")

decode_literature(blob) ==
    LET decrypted == EnvelopeOpen(StoreKey, blob)
    IN  IF ~decrypted.ok THEN decrypted ELSE LiteratureFromJson(decrypted.val)

\* INSERT INTO literature_cache ... ON CONFLICT(id) DO UPDATE SET source,
\* payload, indexed_at
cache_literature(d, entry) ==
    LET payload == LiteratureToJson(entry)
        encrypted == EnvelopeSeal(StoreKey, payload)
    IN  IF ~encrypted.ok THEN Fail(d, encrypted.err)
        ELSE Done([d EXCEPT !.literature_cache =
                       Insert(@, entry.id,
                              [source |-> entry.source,
                               payload |-> encrypted.val,
                               indexed_at |-> entry.indexed_at])],
                  <<>>)

\* SELECT payload FROM literature_cache ORDER BY indexed_at DESC
list_literature(d) ==
    LET rows == d.literature_cache
        order == SeqByKey(DOMAIN rows, [id \in DOMAIN rows |-> 0 - rows[id].indexed_at])
    IN  DecodeRows([i \in 1..Len(order) |-> decode_literature(rows[order[i]].payload)])

\* restore_from_backup (commands/restore.rs) from the BackupData on: an
\* empty backup is refused; otherwise every protocol, dose log and
\* literature entry of the backup is written, a record that fails to write
\* is logged and skipped.  val counts the records restored.
RECURSIVE RestoreProtocolsFrom(_, _, _, _)
RECURSIVE RestoreDoseLogsFrom(_, _, _, _)
RECURSIVE RestoreLiteratureFrom(_, _, _, _)
RestoreLiteratureNext(r, backup_data, i, count) ==
    RestoreLiteratureFrom(r.db, backup_data, i + 1, IF r.ok THEN count + 1 ELSE count)

RestoreLiteratureFrom(d, backup_data, i, count) ==
    IF i > Len(backup_data.literature) THEN Done(d, count)
    ELSE RestoreLiteratureNext(cache_literature(d, backup_data.literature[i]),
                               backup_data, i, count)

RestoreDoseLogNext(r, backup_data, i, count) ==
    RestoreDoseLogsFrom(r.db, backup_data, i + 1, IF r.ok THEN count + 1 ELSE count)

RestoreDoseLogsFrom(d, backup_data, i, count) ==
    IF i > Len(backup_data.dose_logs) THEN RestoreLiteratureFrom(d, backup_data, 1, count)
    ELSE RestoreDoseLogNext(append_dose_log(d, backup_data.dose_logs[i]),
                            backup_data, i, count)

RestoreProtocolNext(r, backup_data, i, count) ==
    RestoreProtocolsFrom(r.db, backup_data, i + 1, IF r.ok THEN count + 1 ELSE count)

RestoreProtocolsFrom(d, backup_data, i, count) ==
    IF i > Len(backup_data.protocols) THEN RestoreDoseLogsFrom(d, backup_data, 1, count)
    ELSE RestoreProtocolNext(upsert_protocol(d, backup_data.protocols[i], FALSE),
                             backup_data, i, count)

restore_from_backup(d, backup_data) ==
    IF backup_data.protocols = <<>> /\ backup_data.dose_logs = <<>>
           /\ backup_data.literature = <<>>
    THEN Fail(d, "Backup file appears to be empty")
    ELSE RestoreProtocolsFrom(d, backup_data, 1, 0)

\* perform_local_backup (commands/scheduler_v2.rs): the lists are read, the
\* document is written and verified.  val counts the records written.
perform_local_backup(d) ==
    IF ~list_protocols(d).ok THEN Fail(d, list_protocols(d).err)
    ELSE IF ~list_dose_logs(d).ok THEN Fail(d, list_dose_logs(d).err)
    ELSE IF ~list_literature(d).ok THEN Fail(d, list_literature(d).err)
    ELSE Done(d, Len(list_protocols(d).val) + Len(list_dose_logs(d).val)
                     + Len(list_literature(d).val))

(***************************************************************************)
(* Key providers and their backends (encryption.rs EnvKeyProvider and      *)
(* StaticKeyProvider, keychain.rs KeychainKeyProvider, state.rs).  A hex   *)
(* string is a sequence of digit values 0..15; HEX_BAD is a character that *)
(* is no hex digit, HEX_SPACE is white space.  An optional value is <<>>   *)
(* or <<v>>.                                                               *)
(***************************************************************************)
HEX_BAD == 16
HEX_SPACE == 17

\* hex::encode: two digits per byte, the high one first.
HexEncode(bytes) ==
    [i \in 1..(2 * Len(bytes)) |->
        IF i % 2 = 1 THEN bytes[(i + 1) \div 2] \div 16 ELSE bytes[i \div 2] % 16]

\* hex::decode: an odd number of characters or a character that is no hex
\* digit is an error.
HexDecode(s) ==
    IF Len(s) % 2 = 1 THEN Err("Odd number of digits")
    ELSE IF \E i \in DOMAIN s : s[i] >= HEX_BAD THEN Err("Invalid character")
    ELSE Ok([i \in 1..(Len(s) \div 2) |-> 16 * s[2 * i - 1] + s[2 * i]])

\* str::trim: white space at both ends is dropped.
RECURSIVE Trim(_)
Trim(s) ==
    IF s = <<>> THEN s
    ELSE IF s[1] = HEX_SPACE THEN Trim(Drop(s, 1))
    ELSE IF s[Len(s)] = HEX_SPACE THEN Trim(Take(s, Len(s) - 1))
    ELSE s

NoProvider == [kind |-> "none", held |-> <<>>]

\* StaticKeyProvider::new: KeyMaterial::new validates, the key is held.
StaticKeyProviderNew(bytes) ==
    IF ~KeyMaterialNew(bytes).ok THEN KeyMaterialNew(bytes)
    ELSE Ok([kind |-> "static", held |-> bytes])

\* EnvKeyProvider::from_env: the variable is read here and its value held.
EnvKeyProviderFromEnv(b) ==
    IF b.env = <<>> THEN Err("Environment variable missing for encryption key")
    ELSE Ok([kind |-> "env", held |-> b.env[1]])

\* load_from_keychain: get_generic_password.
load_from_keychain(b) ==
    IF b.keychain = <<>> THEN Err("Failed to retrieve encryption key from Keychain")
    ELSE Ok(b.keychain[1])

\* KeychainKeyProvider::new with ensure_key_exists: a key is generated and
\* stored when none can be loaded.  val is the Keychain afterwards.
KeychainKeyProviderNew(b, generated) ==
    IF load_from_keychain(b).ok THEN Ok(b.keychain) ELSE Ok(<<generated>>)

\* key_material of the three providers (dyn KeyProvider): the static one
\* clones the key it holds, the environment one decodes the string it
\* holds, the Keychain one loads the item.
ProviderKeyMaterial(p, b) ==
    IF p.kind = "static" THEN Ok(p.held)
    ELSE IF p.kind = "env"
         THEN IF ~HexDecode(p.held).ok THEN Err("Invalid hex in env key")
              ELSE KeyMaterialNew(HexDecode(p.held).val)
    ELSE IF p.kind = "keychain"
         THEN IF ~load_from_keychain(b).ok THEN load_from_keychain(b)
              ELSE KeyMaterialNew(load_from_keychain(b).val)
    ELSE Err("no provider")

\* ensure_key_material (state.rs): the key file is decoded when it can be
\* read; otherwise a key is generated and written.  file is the key file
\* afterwards.
ensure_key_material(b, generated) ==
    IF b.key_file # <<>>
    THEN IF ~HexDecode(Trim(b.key_file[1])).ok
         THEN [ok |-> FALSE, val |-> <<>>, file |-> b.key_file]
         ELSE [ok |-> TRUE, val |-> HexDecode(Trim(b.key_file[1])).val, file |-> b.key_file]
    ELSE [ok |-> TRUE, val |-> generated, file |-> <<HexEncode(generated)>>]

\* A mutation of the migration that does not look for a stored key first.
migrate_file_key_to_keychain_unchecked(b, delete_file) ==
    IF b.key_file = <<>> THEN [ok |-> FALSE, val |-> FALSE, backend |-> b]
    ELSE IF ~HexDecode(Trim(b.key_file[1])).ok THEN [ok |-> FALSE, val |-> FALSE, backend |-> b]
    ELSE IF Len(HexDecode(Trim(b.key_file[1])).val) < KEY_LEN
         THEN [ok |-> FALSE, val |-> FALSE, backend |-> b]
    ELSE [ok |-> TRUE, val |-> TRUE,
          backend |-> [b EXCEPT !.keychain = <<HexDecode(Trim(b.key_file[1])).val>>,
                                !.key_file = IF delete_file THEN <<>> ELSE @]]

\* migrate_file_key_to_keychain: Ok(false) when the Keychain has a key;
\* otherwise the key of the file is decoded, checked, stored, and the file
\* removed if asked for.  val is the boolean returned.
migrate_file_key_to_keychain(b, delete_file) ==
    IF load_from_keychain(b).ok THEN [ok |-> TRUE, val |-> FALSE, backend |-> b]
    ELSE IF b.key_file = <<>> THEN [ok |-> FALSE, val |-> FALSE, backend |-> b]
    ELSE IF ~HexDecode(Trim(b.key_file[1])).ok THEN [ok |-> FALSE, val |-> FALSE, backend |-> b]
    ELSE IF Len(HexDecode(Trim(b.key_file[1])).val) < KEY_LEN
         THEN [ok |-> FALSE, val |-> FALSE, backend |-> b]
    ELSE [ok |-> TRUE, val |-> TRUE,
          backend |-> [b EXCEPT !.keychain = <<HexDecode(Trim(b.key_file[1])).val>>,
                                !.key_file = IF delete_file THEN <<>> ELSE @]]

(***************************************************************************)
(* Format detection (backup_encryption.rs is_encrypted_backup).  A         *)
(* document is the sequence of its JSON tokens; a string token is the      *)
(* string in quotes.  A parsed value is its kind, its boolean if it is     *)
(* one, and its members if it is an object.                                *)
(***************************************************************************)
JsonStrings == {"\"encrypted\"", "\"other\""}

JsonValue(kind, b, members) == [kind |-> kind, b |-> b, members |-> members]

NoParse == [ok |-> FALSE, val |-> JsonValue("none", FALSE, <<>>), next |-> 0]

Parsed(v, next) == [ok |-> TRUE, val |-> v, next |-> next]

\* serde_json's parser for a Value: literals, strings, arrays and objects;
\* a later member replaces an earlier one of the same name.
RECURSIVE ParseValue(_, _)
RECURSIVE ParseMembers(_, _, _)
RECURSIVE ParseElements(_, _)
AfterMember(t, key, r, acc) ==
    IF ~r.ok \/ r.next > Len(t) THEN NoParse
    ELSE IF t[r.next] = "}"
         THEN Parsed(JsonValue("object", FALSE, Append(acc, <<key, r.val>>)), r.next + 1)
    ELSE IF t[r.next] = ","
         THEN ParseMembers(t, r.next + 1, Append(acc, <<key, r.val>>))
    ELSE NoParse

ParseMembers(t, i, acc) ==
    IF i + 1 > Len(t) THEN NoParse
    ELSE IF t[i] \notin JsonStrings \/ t[i + 1] # ":" THEN NoParse
    ELSE AfterMember(t, t[i], ParseValue(t, i + 2), acc)

AfterElement(t, r) ==
    IF ~r.ok \/ r.next > Len(t) THEN NoParse
    ELSE IF t[r.next] = "]" THEN Parsed(JsonValue("array", FALSE, <<>>), r.next + 1)
    ELSE IF t[r.next] = "," THEN ParseElements(t, r.next + 1)
    ELSE NoParse

ParseElements(t, i) == AfterElement(t, ParseValue(t, i))

ParseValue(t, i) ==
    IF i > Len(t) THEN NoParse
    ELSE IF t[i] \in {"true", "false"} THEN Parsed(JsonValue("bool", t[i] = "true", <<>>), i + 1)
    ELSE IF t[i] = "null" THEN Parsed(JsonValue("null", FALSE, <<>>), i + 1)
    ELSE IF t[i] = "1" THEN Parsed(JsonValue("number", FALSE, <<>>), i + 1)
    ELSE IF t[i] \in JsonStrings THEN Parsed(JsonValue("string", FALSE, <<>>), i + 1)
    ELSE IF t[i] = "{"
         THEN IF i + 1 <= Len(t) /\ t[i + 1] = "}"
              THEN Parsed(JsonValue("object", FALSE, <<>>), i + 2)
              ELSE ParseMembers(t, i + 1, <<>>)
    ELSE IF t[i] = "["
         THEN IF i + 1 <= Len(t) /\ t[i + 1] = "]"
              THEN Parsed(JsonValue("array", FALSE, <<>>), i + 2)
              ELSE ParseElements(t, i + 1)
    ELSE NoParse

\* serde_json::from_str::<Value>: one value, and nothing after it.
JsonFromStr(t) ==
    IF ParseValue(t, 1).ok /\ ParseValue(t, 1).next = Len(t) + 1
    THEN Ok(ParseValue(t, 1).val)
    ELSE Err("expected value")

\* Value::get with a string index: the member of an object, the last one
\* of that name; None for every other kind of value.
ValueGet(v, key) ==
    IF v.kind # "object" \/ \A i \in DOMAIN v.members : v.members[i][1] # key
    THEN <<>>
    ELSE <<v.members[CHOOSE i \in DOMAIN v.members :
                        /\ v.members[i][1] = key
                        /\ \A j \in DOMAIN v.members : v.members[j][1] = key => j <= i][2]>>

\* Value::as_bool: Some for a boolean, None otherwise.
as_bool(v) == IF v.kind = "bool" THEN <<v.b>> ELSE <<>>

\* A mutation of the detection: the member only has to be there.
is_encrypted_backup_any_value(backup_json) ==
    IF ~JsonFromStr(backup_json).ok THEN FALSE
    ELSE ValueGet(JsonFromStr(backup_json).val, "\"encrypted\"") # <<>>

\* is_encrypted_backup: value.get("encrypted").and_then(as_bool)
\* .unwrap_or(false), false when the text does not parse.
is_encrypted_backup(backup_json) ==
    IF ~JsonFromStr(backup_json).ok THEN FALSE
    ELSE IF ValueGet(JsonFromStr(backup_json).val, "\"encrypted\"") = <<>> THEN FALSE
    ELSE IF as_bool(ValueGet(JsonFromStr(backup_json).val, "\"encrypted\"")[1]) = <<>> THEN FALSE
    ELSE as_bool(ValueGet(JsonFromStr(backup_json).val, "\"encrypted\"")[1])[1]

(***************************************************************************)
(* The storage manager as a state machine.                                 *)
(***************************************************************************)
NoTx == [op |-> "none", ids |-> <<>>, next |-> 0, work |-> EmptyDb, count |-> 0]

\* The last call: the operation, its identifiers and argument, the writes of
\* it that found the file locked, and what it returned.
Ret(op, ids, ok, count, err) ==
    [op |-> op, ids |-> ids, arg |-> 0, locked |-> {},
     ok |-> ok, count |-> count, err |-> err]

DbInit ==
    /\ db = EmptyDb
    /\ tx = NoTx
    /\ policies = {}
    /\ ret = Ret("none", <<>>, TRUE, 0, "")

\* The payload bytes of one row are damaged on disk.
DiskDamage(table, id) ==
    /\ tx = NoTx
    /\ id \in DOMAIN db[table]
    /\ ~db[table][id].payload.damaged
    /\ db' = [db EXCEPT ![table][id].payload.damaged = TRUE]
    /\ ret' = Ret("disk damage", <<id>>, TRUE, 0, "")
    /\ UNCHANGED <<tx, policies>>
    /\ UNCHANGED dbOthers

UpsertProtocol(protocol, locked) ==
    /\ tx = NoTx
    /\ LET r == upsert_protocol(db, protocol, locked)
       IN  /\ db' = r.db
           /\ ret' = Ret("upsert_protocol", <<protocol.id>>, r.ok, 0, r.err)
    /\ UNCHANGED <<tx, policies>>
    /\ UNCHANGED dbOthers

ListProtocols ==
    /\ LET r == list_protocols(db)
       IN  ret' = Ret("list_protocols", <<>>, r.ok, Len(r.val), r.err)
    /\ UNCHANGED <<db, tx, policies>>
    /\ UNCHANGED dbOthers

GetProtocol(protocol_id) ==
    /\ LET r == get_protocol(db, protocol_id)
       IN  ret' = Ret("get_protocol", <<protocol_id>>, r.ok, Len(r.val), r.err)
    /\ UNCHANGED <<db, tx, policies>>
    /\ UNCHANGED dbOthers

BulkAddTagToProtocols(protocol_ids, tag, now, locked) ==
    /\ tx = NoTx
    /\ LET r == bulk_add_tag_to_protocols(db, protocol_ids, tag, now, locked)
       IN  /\ db' = r.db
           /\ ret' = [Ret("bulk_add_tag_to_protocols", protocol_ids, r.ok, r.val, r.err)
                          EXCEPT !.arg = tag, !.locked = locked]
    /\ UNCHANGED <<tx, policies>>
    /\ UNCHANGED dbOthers

BulkToggleFavoriteProtocols(protocol_ids, is_favorite, now, locked) ==
    /\ tx = NoTx
    /\ LET r == bulk_toggle_favorite_protocols(db, protocol_ids, is_favorite, now, locked)
       IN  /\ db' = r.db
           /\ ret' = [Ret("bulk_toggle_favorite_protocols", protocol_ids, r.ok, r.val, r.err)
                          EXCEPT !.arg = BoolNum(is_favorite), !.locked = locked]
    /\ UNCHANGED <<tx, policies>>
    /\ UNCHANGED dbOthers

UpsertSupplier(supplier) ==
    /\ tx = NoTx
    /\ LET r == upsert_supplier(db, supplier)
       IN  /\ db' = r.db
           /\ ret' = Ret("upsert_supplier", <<supplier.id>>, r.ok, 0, r.err)
    /\ UNCHANGED <<tx, policies>>
    /\ UNCHANGED dbOthers

AddPriceHistory(entry) ==
    /\ tx = NoTx
    /\ LET r == add_price_history(db, entry)
       IN  /\ db' = r.db
           /\ ret' = Ret("add_price_history", <<entry.id>>, r.ok, 0, r.err)
    /\ UNCHANGED <<tx, policies>>
    /\ UNCHANGED dbOthers

ComparePrices(peptide_name) ==
    /\ LET r == compare_prices(db, peptide_name)
       IN  ret' = [Ret("compare_prices", <<>>, r.ok, Len(r.val), r.err)
                      EXCEPT !.arg = peptide_name]
    /\ UNCHANGED <<db, tx, policies>>
    /\ UNCHANGED dbOthers

AppendDoseLog(log) ==
    /\ tx = NoTx
    /\ LET r == append_dose_log(db, log)
       IN  /\ db' = r.db
           /\ ret' = Ret("append_dose_log", <<log.id>>, r.ok, 0, r.err)
    /\ UNCHANGED <<tx, policies>>
    /\ UNCHANGED dbOthers

ListDoseLogs ==
    /\ LET r == list_dose_logs(db)
       IN  ret' = Ret("list_dose_logs", <<>>, r.ok, Len(r.val), r.err)
    /\ UNCHANGED <<db, tx, policies>>
    /\ UNCHANGED dbOthers

UpsertBodyMetric(metric) ==
    /\ tx = NoTx
    /\ LET r == upsert_body_metric(db, metric)
       IN  /\ db' = r.db
           /\ ret' = Ret("upsert_body_metric", <<metric.id>>, r.ok, 0, r.err)
    /\ UNCHANGED <<tx, policies>>
    /\ UNCHANGED dbOthers

ListBodyMetrics ==
    /\ LET r == list_body_metrics(db)
       IN  ret' = Ret("list_body_metrics", <<>>, r.ok, Len(r.val), r.err)
    /\ UNCHANGED <<db, tx, policies>>
    /\ UNCHANGED dbOthers

UpsertInventoryItem(item) ==
    /\ tx = NoTx
    /\ LET r == upsert_inventory_item(db, item)
       IN  /\ db' = r.db
           /\ ret' = Ret("upsert_inventory_item", <<item.id>>, r.ok, 0, r.err)
    /\ UNCHANGED <<tx, policies>>
    /\ UNCHANGED dbOthers

DeleteSupplier(supplier_id) ==
    /\ tx = NoTx
    /\ LET r == delete_supplier(db, supplier_id)
       IN  /\ db' = r.db
           /\ ret' = Ret("delete_supplier", <<supplier_id>>, r.ok, 0, r.err)
    /\ UNCHANGED <<tx, policies>>
    /\ UNCHANGED dbOthers

CreateAlert(alert) ==
    /\ tx = NoTx
    /\ LET r == create_alert(db, alert)
       IN  /\ db' = r.db
           /\ ret' = Ret("create_alert", <<alert.id>>, r.ok, 0, r.err)
    /\ UNCHANGED <<tx, policies>>
    /\ UNCHANGED dbOthers

ListAlerts(include_dismissed) ==
    /\ LET r == list_alerts(db, include_dismissed)
       IN  ret' = [Ret("list_alerts", <<>>, r.ok, Len(r.val), r.err)
                      EXCEPT !.arg = BoolNum(include_dismissed)]
    /\ UNCHANGED <<db, tx, policies>>
    /\ UNCHANGED dbOthers

MarkAlertRead(alert_id) ==
    /\ tx = NoTx
    /\ LET r == mark_alert_read(db, alert_id)
       IN  /\ db' = r.db
           /\ ret' = Ret("mark_alert_read", <<alert_id>>, r.ok, 0, r.err)
    /\ UNCHANGED <<tx, policies>>
    /\ UNCHANGED dbOthers

DismissAlert(alert_id) ==
    /\ tx = NoTx
    /\ LET r == dismiss_alert(db, alert_id)
       IN  /\ db' = r.db
           /\ ret' = Ret("dismiss_alert", <<alert_id>>, r.ok, 0, r.err)
    /\ UNCHANGED <<tx, policies>>
    /\ UNCHANGED dbOthers

CreateDoseSchedule(id, protocol_id) ==
    /\ tx = NoTx
    /\ id \notin DOMAIN db.dose_schedules
    /\ LET r == create_dose_schedule(db, id, protocol_id)
       IN  /\ db' = r.db
           /\ ret' = Ret("create_dose_schedule", <<id>>, r.ok, 0, r.err)
    /\ UNCHANGED <<tx, policies>>
    /\ UNCHANGED dbOthers

\* The batch names exactly one row that is there.
OneValidOneInvalid(d, op, ids) ==
    /\ Len(ids) = 2
    /\ Cardinality({i \in 1..2 : ids[i] \in DOMAIN d[TableOf(op)]}) = 1

\* What a finished bulk delete did with a batch of one valid and one invalid
\* identifier: "partial" (the valid row is gone, count 1), "atomic" (an error,
\* nothing gone), or neither.
PolicyShown(before, after, op, ids, ok, count) ==
    IF ~OneValidOneInvalid(before, op, ids) THEN {}
    ELSE IF /\ ok /\ count = 1
            /\ \A i \in 1..2 : ids[i] \notin DOMAIN after[TableOf(op)]
    THEN {"partial"}
    ELSE IF ~ok /\ after = before THEN {"atomic"}
    ELSE {"other"}

\* The head of bulk_delete_*: an empty list returns Ok(0); otherwise
\* conn.unchecked_transaction() opens the transaction.
BeginBulkDelete(op, ids) ==
    /\ tx = NoTx
    /\ IF ids = <<>>
       THEN /\ ret' = Ret(op, ids, TRUE, 0, "")
            /\ tx' = tx
       ELSE /\ ret' = Ret("BEGIN", ids, TRUE, 0, "")
            /\ tx' = [op |-> op, ids |-> ids, next |-> 1, work |-> db, count |-> 0]
    /\ UNCHANGED <<db, policies>>
    /\ UNCHANGED dbOthers

\* One turn of the loop: let rows = stmt.execute(params![id])?;
\* total_deleted += rows.  A failing statement leaves the function, and the
\* transaction is dropped.
BulkDeleteStatement(busy) ==
    /\ tx # NoTx
    /\ tx.next <= Len(tx.ids)
    /\ LET r == stmt_execute(tx.op, tx.work, tx.ids[tx.next], busy)
       IN  IF r.ok
           THEN /\ tx' = [tx EXCEPT !.work = r.db, !.count = @ + r.val, !.next = @ + 1]
                /\ UNCHANGED <<db, ret, policies>>
           ELSE /\ db' = rollback(db, tx.work)
                /\ tx' = NoTx
                /\ ret' = Ret(tx.op, tx.ids, FALSE, 0, r.err)
                /\ policies' = IF busy THEN policies
                               ELSE policies \cup PolicyShown(db, db', tx.op, tx.ids, FALSE, 0)
    /\ UNCHANGED dbOthers

\* tx.commit()?; Ok(total_deleted)
CommitBulkDelete ==
    /\ tx # NoTx
    /\ tx.next > Len(tx.ids)
    /\ db' = tx.work
    /\ tx' = NoTx
    /\ ret' = Ret(tx.op, tx.ids, TRUE, tx.count, "")
    /\ policies' = policies \cup PolicyShown(db, db', tx.op, tx.ids, TRUE, tx.count)
    /\ UNCHANGED dbOthers

DeleteProtocol(protocol_id) ==
    /\ tx = NoTx
    /\ LET r == delete_protocol(db, protocol_id)
       IN  /\ db' = r.db
           /\ ret' = Ret("delete_protocol", <<protocol_id>>, r.ok, 0, r.err)
    /\ UNCHANGED <<tx, policies>>
    /\ UNCHANGED dbOthers

\* ret.arg is the supplier the item read back names, 0 if none.
GetInventoryItem(item_id) ==
    /\ LET r == get_inventory_item(db, item_id)
       IN  ret' = [Ret("get_inventory_item", <<item_id>>, r.ok, Len(r.val), r.err)
                      EXCEPT !.arg = IF r.ok /\ Len(r.val) = 1 /\ Len(r.val[1].supplier_id) = 1
                                     THEN r.val[1].supplier_id[1] ELSE 0]
    /\ UNCHANGED <<db, tx, policies>>
    /\ UNCHANGED dbOthers

\* ---- the database file ----

\* The file a completed initialize leaves, and a connection of the manager.
FreshFile == [user_version |-> 0, tables |-> {}, indexes |-> {},
              is_favorite |-> FALSE, wal |-> FALSE, corrupt |-> FALSE]

FileInit ==
    /\ file = initialize(FreshFile).file
    /\ conn = initialize(FreshFile).conn

\* Every table and index of the batch is there, with the migrated column.
Initialized(f) ==
    /\ \A i \in DOMAIN InitializeBatch :
          InitializeBatch[i][2] \in
              (IF InitializeBatch[i][1] = "table" THEN f.tables ELSE f.indexes)
    /\ f.is_favorite

\* The file and the connection are what an operation of the manager, which
\* opens its own connection, finds and leaves.
Settled == Initialized(file) /\ open_connection(file) = [file |-> file, conn |-> conn]

\* StorageManager::initialize, as state.rs runs it at every start.
Initialize ==
    /\ tx = NoTx
    /\ file' = initialize(file).file
    /\ conn' = initialize(file).conn
    /\ ret' = Ret("initialize", <<>>, initialize(file).ok, 0, "")
    /\ UNCHANGED <<db, tx, policies>>
    /\ UNCHANGED fileOthers

\* StorageManager::connection: the raw connection handed to callers.
Connection ==
    /\ tx = NoTx
    /\ file' = open_connection(file).file
    /\ conn' = open_connection(file).conn
    /\ ret' = Ret("connection", <<>>, TRUE, 0, "")
    /\ UNCHANGED <<db, tx, policies>>
    /\ UNCHANGED fileOthers

\* A page of the file is damaged: quick_check no longer answers "ok".
FileCorruption ==
    /\ tx = NoTx
    /\ ~file.corrupt
    /\ file' = [file EXCEPT !.corrupt = TRUE]
    /\ ret' = Ret("file corruption", <<>>, TRUE, 0, "")
    /\ UNCHANGED <<conn, db, tx, policies>>
    /\ UNCHANGED fileOthers

\* verify_database_integrity (commands/health.rs), the one caller of
\* verify_integrity.
VerifyIntegrity ==
    /\ tx = NoTx
    /\ file' = open_connection(file).file
    /\ conn' = open_connection(file).conn
    /\ ret' = Ret("verify_integrity", <<>>, verify_integrity(file), 0, "")
    /\ UNCHANGED <<db, tx, policies>>
    /\ UNCHANGED fileOthers

RestoreFromBackup(backup_data) ==
    /\ tx = NoTx
    /\ db' = restore_from_backup(db, backup_data).db
    /\ ret' = Ret("restore_from_backup", <<>>, restore_from_backup(db, backup_data).ok,
                  restore_from_backup(db, backup_data).val, "")
    /\ UNCHANGED <<tx, policies>>
    /\ UNCHANGED dbOthers

PerformLocalBackup ==
    /\ tx = NoTx
    /\ ret' = Ret("perform_local_backup", <<>>, perform_local_backup(db).ok,
                  perform_local_backup(db).val, "")
    /\ UNCHANGED <<db, tx, policies>>
    /\ UNCHANGED dbOthers

\* ---- key providers and their backends ----

NoKeyRet == [op |-> "none", ok |-> TRUE, val |-> FALSE, key |-> <<>>]

KeyRet(op, ok, val, key) == [op |-> op, ok |-> ok, val |-> val, key |-> key]

KeyInit ==
    /\ backend = [env |-> <<>>, keychain |-> <<>>, key_file |-> <<>>]
    /\ provider = NoProvider
    /\ kwire = [issued |-> {}, payload |-> <<>>]
    /\ kret = NoKeyRet

\* The environment variable, the Keychain item or the key file is set,
\* replaced or removed from outside the library.
BackendChange(field, value) ==
    /\ backend[field] # value
    /\ backend' = [backend EXCEPT ![field] = value]
    /\ kret' = KeyRet("backend change", TRUE, FALSE, <<>>)
    /\ UNCHANGED <<provider, kwire>>
    /\ UNCHANGED keyOthers

\* select_key_provider's file-based provider (state.rs):
\* StaticKeyProvider::new(ensure_key_material(data_dir)?).
NewStaticKeyProvider(generated) ==
    /\ provider = NoProvider
    /\ backend' = [backend EXCEPT !.key_file = ensure_key_material(backend, generated).file]
    /\ IF ensure_key_material(backend, generated).ok
          /\ StaticKeyProviderNew(ensure_key_material(backend, generated).val).ok
       THEN provider' = StaticKeyProviderNew(ensure_key_material(backend, generated).val).val
       ELSE provider' = provider
    /\ kret' = KeyRet("StaticKeyProvider::new", provider' # NoProvider, FALSE, <<>>)
    /\ UNCHANGED kwire
    /\ UNCHANGED keyOthers

NewEnvKeyProvider ==
    /\ provider = NoProvider
    /\ provider' = IF EnvKeyProviderFromEnv(backend).ok
                   THEN EnvKeyProviderFromEnv(backend).val ELSE provider
    /\ kret' = KeyRet("EnvKeyProvider::from_env", EnvKeyProviderFromEnv(backend).ok, FALSE, <<>>)
    /\ UNCHANGED <<backend, kwire>>
    /\ UNCHANGED keyOthers

NewKeychainKeyProvider(generated) ==
    /\ provider = NoProvider
    /\ backend' = [backend EXCEPT !.keychain = KeychainKeyProviderNew(backend, generated).val]
    /\ provider' = [kind |-> "keychain", held |-> <<>>]
    /\ kret' = KeyRet("KeychainKeyProvider::new", TRUE, FALSE, <<>>)
    /\ UNCHANGED kwire
    /\ UNCHANGED keyOthers

\* The process ends; the next one constructs its provider anew.
Restart ==
    /\ provider # NoProvider
    /\ provider' = NoProvider
    /\ kret' = KeyRet("restart", TRUE, FALSE, <<>>)
    /\ UNCHANGED <<backend, kwire>>
    /\ UNCHANGED keyOthers

\* The key bytes a call of seal or open works with, <<>> if it got none.
KeyUsed(km) == IF km.ok THEN to_key_bytes(km.val) ELSE <<>>

\* encryption.seal(plaintext) with the process's provider.
KeySeal(plaintext, nonce) ==
    /\ provider # NoProvider
    /\ IF SealWith(ProviderKeyMaterial(provider, backend), nonce, plaintext).ok
       THEN kwire' =
               [issued |-> kwire.issued \cup
                    {AeadTriple(KeyUsed(ProviderKeyMaterial(provider, backend)), nonce, plaintext)},
                payload |-> SealWith(ProviderKeyMaterial(provider, backend), nonce, plaintext).val]
       ELSE kwire' = kwire
    /\ kret' = KeyRet("seal", SealWith(ProviderKeyMaterial(provider, backend), nonce, plaintext).ok,
                      FALSE, KeyUsed(ProviderKeyMaterial(provider, backend)))
    /\ UNCHANGED <<backend, provider>>
    /\ UNCHANGED keyOthers

\* encryption.open(&payload) with the process's provider.
KeyOpen ==
    /\ provider # NoProvider
    /\ kwire.payload # <<>>
    /\ kret' = KeyRet("open",
                      OpenWith(kwire.issued, ProviderKeyMaterial(provider, backend), kwire.payload).ok,
                      FALSE, KeyUsed(ProviderKeyMaterial(provider, backend)))
    /\ UNCHANGED <<backend, provider, kwire>>
    /\ UNCHANGED keyOthers

\* migrate_file_key_to_keychain(file_path, delete_file).
MigrateFileKeyToKeychain(delete_file) ==
    /\ backend' = migrate_file_key_to_keychain(backend, delete_file).backend
    /\ kret' = KeyRet("migrate_file_key_to_keychain",
                      migrate_file_key_to_keychain(backend, delete_file).ok,
                      migrate_file_key_to_keychain(backend, delete_file).val, <<>>)
    /\ UNCHANGED <<provider, kwire>>
    /\ UNCHANGED keyOthers

\* attempt_keychain_migration (state.rs): nothing without a key file;
\* otherwise the migration, keeping the file, its error only logged.
AttemptKeychainMigration ==
    /\ provider = NoProvider
    /\ IF backend.key_file = <<>>
       THEN /\ backend' = backend
            /\ kret' = KeyRet("attempt_keychain_migration", TRUE, FALSE, <<>>)
       ELSE /\ backend' = migrate_file_key_to_keychain(backend, FALSE).backend
            /\ kret' = KeyRet("attempt_keychain_migration", TRUE,
                              migrate_file_key_to_keychain(backend, FALSE).val, <<>>)
    /\ UNCHANGED <<provider, kwire>>
    /\ UNCHANGED keyOthers

\* ---- format detection ----

DetectInit == detected = [done |-> FALSE, doc |-> <<>>, result |-> FALSE]

\* One call is followed per behaviour: the function keeps no state.
IsEncryptedBackup(backup_json) ==
    /\ ~detected.done
    /\ detected' = [done |-> TRUE, doc |-> backup_json,
                    result |-> is_encrypted_backup(backup_json)]
    /\ UNCHANGED detectOthers

(***************************************************************************)
(* The backup scheduler (commands/scheduler_v2.rs).  Time is counted in    *)
(* hours.  A time string is <<t, separator, offset>>: the date and time of *)
(* day t, the character between date and time, and the text of the UTC     *)
(* offset.  A schedule keeps the fields the scheduler reads; destinations  *)
(* is [Local], the default.                                                *)
(***************************************************************************)
MaxClock == 1
MaxHistory == 2
MaxRetries == 2
MAX_HISTORY_ENTRIES == 100
HOURS_PER_DAY == 24
HOURS_PER_WEEK == 168

Tasks == {"scheduler", "manual", "close"}

\* impl Default for BackupSchedule
BackupScheduleDefault ==
    [enabled |-> FALSE, frequency |-> [kind |-> "Manual", hour |-> 0],
     last_backup |-> <<>>, next_backup |-> <<>>,
     backup_on_close |-> FALSE, max_retries |-> 3]

\* impl Display for OffsetDateTime (time crate): "date time +hh:mm:ss".
OffsetDateTimeToString(t) == <<t, " ", "+00:00:00">>

\* OffsetDateTime::parse(s, &Rfc3339): date "T" time, then "Z" or "+hh:mm".
ParseRfc3339(s) ==
    IF s[2] \in {"T", "t"} /\ s[3] \in {"Z", "z", "+00:00"}
    THEN Ok(s[1])
    ELSE Err("invalid literal")

\* `as i8` of a u8
AsI8(n) == IF n % 256 >= 128 THEN (n % 256) - 256 ELSE n % 256

\* calculate_next_backup, at the time t of the call
calculate_next_backup(frequency, t) ==
    LET next ==
            CASE frequency.kind = "Hourly" -> t + 1
              [] frequency.kind = "DailyAt" ->
                    LET target_hour == AsI8(frequency.hour)
                        current_hour == AsI8(t % HOURS_PER_DAY)
                        hours_until_target ==
                            IF target_hour > current_hour
                            THEN target_hour - current_hour
                            ELSE AsI8(AsI8(HOURS_PER_DAY + target_hour) - current_hour)
                    IN  t + hours_until_target
              [] frequency.kind = "Weekly" -> t + HOURS_PER_WEEK
              [] OTHER -> t
    IN  OffsetDateTimeToString(next)

\* A mutation of Mutex::try_lock: the lock is handed out even when held.
try_lock_always(lock, t) == [ok |-> TRUE, lock |-> t]

\* Mutex::try_lock on backup_lock, by task t
try_lock(lock, t) ==
    IF lock = "free" THEN [ok |-> TRUE, lock |-> t] ELSE [ok |-> FALSE, lock |-> lock]

\* add_history_entry: newest first, at most MAX_HISTORY_ENTRIES kept.  The
\* history file it then writes is read by no operation after startup.
add_history_entry(h, entry) ==
    LET inserted == <<entry>> \o h
    IN  IF Len(inserted) > MAX_HISTORY_ENTRIES
        THEN SubSeq(inserted, 1, MAX_HISTORY_ENTRIES)
        ELSE inserted

\* save_schedule_to_disk: the file after the call, and the result
save_schedule_to_disk(disk, s, write_ok) ==
    IF write_ok THEN [disk |-> <<s>>, res |-> Ok(<<>>)]
    ELSE [disk |-> disk, res |-> Err("Failed to save backup schedule")]

\* load_schedule_from_disk
load_schedule_from_disk(disk) ==
    IF disk = <<>> THEN Err("Backup schedule not found") ELSE Ok(disk[1])

\* SchedulerState::new followed by load_from_disk: the schedule in memory
load_from_disk(disk) ==
    LET loaded == load_schedule_from_disk(disk)
    IN  IF loaded.ok THEN loaded.val ELSE BackupScheduleDefault

IdleTask == [pc |-> "idle", attempt |-> 0, max_retries |-> 0, last_error |-> FALSE]
NoSchedRet == [op |-> "none", task |-> "none", outcome |-> "none", err |-> ""]
SchedRet(op, t, outcome, err) == [op |-> op, task |-> t, outcome |-> outcome, err |-> err]

\* the tasks inside perform_scheduled_backup_with_retry
Running == {t \in Tasks : task[t].pc \in {"retry", "backup"}}

SchedulerStart(disk) ==
    /\ schedDisk = disk
    /\ schedule = load_from_disk(disk)
    /\ history = <<>>
    /\ progress = [is_running |-> FALSE]
    /\ backup_lock = "free"
    /\ task = [t \in Tasks |-> IdleTask]
    /\ now_utc = 0
    /\ sret = NoSchedRet

\* no schedule file: a first start
SchedulerInit == SchedulerStart(<<>>)

\* perform_scheduled_backup_with_retry, entered by task t holding the lock:
\* the schedule is cloned and the loop over 1..=max_retries starts.
RunBegin(t, lock) ==
    /\ backup_lock' = lock
    /\ task' = [task EXCEPT ![t] = [pc |-> "retry", attempt |-> 0,
                                    max_retries |-> schedule.max_retries,
                                    last_error |-> FALSE]]
    /\ sret' = SchedRet("perform_scheduled_backup_with_retry", t, "started", "")
    /\ UNCHANGED <<schedule, schedDisk, history, progress, now_utc>>

\* a step that starts nothing and changes nothing but its result
NoRun(op, t, outcome, err) ==
    /\ sret' = SchedRet(op, t, outcome, err)
    /\ UNCHANGED <<schedule, schedDisk, history, progress, backup_lock, task, now_utc>>

\* One iteration of the loop spawned by start_scheduler, up to its sleep or
\* to the call of perform_scheduled_backup_with_retry.
SchedulerTick ==
    /\ task["scheduler"].pc = "idle"
    /\ Len(history) < MaxHistory
    /\ IF ~schedule.enabled
       THEN NoRun("start_scheduler", "scheduler", "disabled", "")
       ELSE IF schedule.next_backup = <<>>
       THEN NoRun("start_scheduler", "scheduler", "no next_backup", "")
       ELSE LET parsed == ParseRfc3339(schedule.next_backup[1])
                locked == try_lock(backup_lock, "scheduler")
            IN  IF ~parsed.ok
                THEN NoRun("start_scheduler", "scheduler", "unparsable",
                           "Failed to parse next backup time")
                ELSE IF ~(now_utc >= parsed.val)
                THEN NoRun("start_scheduler", "scheduler", "not due", "")
                ELSE IF ~locked.ok
                THEN NoRun("start_scheduler", "scheduler", "skipped",
                           "Backup already in progress, skipping")
                ELSE RunBegin("scheduler", locked.lock)
    /\ UNCHANGED schOthers

\* trigger_manual_backup, up to the call of perform_scheduled_backup_with_retry
TriggerManualBackup ==
    /\ task["manual"].pc = "idle"
    /\ Len(history) < MaxHistory
    /\ LET locked == try_lock(backup_lock, "manual")
       IN  IF ~locked.ok
           THEN NoRun("trigger_manual_backup", "manual", "err",
                      "A backup is already in progress")
           ELSE RunBegin("manual", locked.lock)
    /\ UNCHANGED schOthers

\* trigger_backup_on_close, up to the call of perform_scheduled_backup_with_retry
TriggerBackupOnClose ==
    /\ task["close"].pc = "idle"
    /\ Len(history) < MaxHistory
    /\ LET locked == try_lock(backup_lock, "close")
       IN  IF ~schedule.backup_on_close
           THEN NoRun("trigger_backup_on_close", "close", "ok", "")
           ELSE IF ~locked.ok
           THEN NoRun("trigger_backup_on_close", "close", "err",
                      "Backup already in progress")
           ELSE RunBegin("close", locked.lock)
    /\ UNCHANGED schOthers

\* The loop of perform_scheduled_backup_with_retry takes its next attempt:
\* perform_single_backup starts and raises is_running.
AttemptBegin(t) ==
    /\ task[t].pc = "retry"
    /\ task[t].attempt < task[t].max_retries
    /\ task' = [task EXCEPT ![t].pc = "backup", ![t].attempt = @ + 1]
    /\ progress' = [progress EXCEPT !.is_running = TRUE]
    /\ sret' = SchedRet("perform_single_backup", t, "started", "")
    /\ UNCHANGED <<schedule, schedDisk, history, backup_lock, now_utc>>
    /\ UNCHANGED schOthers

\* what the caller of perform_scheduled_backup_with_retry returns for it
CallerOp(t) ==
    CASE t = "manual" -> "trigger_manual_backup"
      [] t = "close" -> "trigger_backup_on_close"
      [] OTHER -> "start_scheduler"

\* perform_single_backup ends.  A successful attempt ends the run: history
\* entry, last_backup and next_backup, the schedule file (its result is
\* dropped), is_running lowered, the result handed to the caller, whose
\* guard frees the lock.  A failed attempt is kept as last_error.
AttemptEnd(t, backup_ok, write_ok) ==
    /\ task[t].pc = "backup"
    /\ IF backup_ok
       THEN LET stamped == [schedule EXCEPT !.last_backup = <<OffsetDateTimeToString(now_utc)>>]
                sched == IF stamped.enabled
                         THEN [stamped EXCEPT !.next_backup =
                                  <<calculate_next_backup(stamped.frequency, now_utc)>>]
                         ELSE stamped
            IN  /\ history' = add_history_entry(history, [success |-> TRUE])
                /\ schedule' = sched
                /\ schedDisk' = save_schedule_to_disk(schedDisk, sched, write_ok).disk
                /\ progress' = [progress EXCEPT !.is_running = FALSE]
                /\ task' = [task EXCEPT ![t] = IdleTask]
                /\ backup_lock' = "free"
                /\ sret' = SchedRet(CallerOp(t), t, "ok", "")
       ELSE /\ task' = [task EXCEPT ![t].pc = "retry", ![t].last_error = TRUE]
            /\ sret' = SchedRet("perform_single_backup", t, "err", "Local backup failed")
            /\ UNCHANGED <<history, schedule, schedDisk, progress, backup_lock>>
    /\ UNCHANGED now_utc
    /\ UNCHANGED schOthers

\* The loop of perform_scheduled_backup_with_retry is over without a
\* success: last_error.unwrap() panics on None, which unwinds the task and
\* frees the lock (the scheduler loop is gone for good, a command never
\* answers); otherwise a failure entry is recorded and the error returned.
RunExhausted(t) ==
    /\ task[t].pc = "retry"
    /\ task[t].attempt >= task[t].max_retries
    /\ IF ~task[t].last_error
       THEN /\ task' = [task EXCEPT ![t] = IF t = "scheduler"
                                           THEN [IdleTask EXCEPT !.pc = "dead"]
                                           ELSE IdleTask]
            /\ sret' = SchedRet(CallerOp(t), t, "panic",
                                "called Option::unwrap() on a None value")
            /\ UNCHANGED history
       ELSE /\ history' = add_history_entry(history, [success |-> FALSE])
            /\ task' = [task EXCEPT ![t] = IdleTask]
            /\ sret' = SchedRet(CallerOp(t), t, "err", "Backup failed")
    /\ backup_lock' = "free"
    /\ UNCHANGED <<schedule, schedDisk, progress, now_utc>>
    /\ UNCHANGED schOthers

\* update_backup_schedule: next_backup is computed, the schedule in memory
\* replaced, and then the file written.
UpdateBackupSchedule(s, write_ok) ==
    /\ LET updated_schedule ==
               [s EXCEPT !.next_backup =
                   IF s.enabled THEN <<calculate_next_backup(s.frequency, now_utc)>> ELSE <<>>]
           saved == save_schedule_to_disk(schedDisk, updated_schedule, write_ok)
       IN  /\ schedule' = updated_schedule
           /\ schedDisk' = saved.disk
           /\ sret' = IF saved.res.ok
                      THEN SchedRet("update_backup_schedule", "none", "ok", "")
                      ELSE SchedRet("update_backup_schedule", "none", "err",
                                    "Failed to save schedule")
    /\ UNCHANGED <<history, progress, backup_lock, task, now_utc>>
    /\ UNCHANGED schOthers

\* OffsetDateTime::now_utc() moves on
ClockTick ==
    /\ now_utc < MaxClock
    /\ now_utc' = now_utc + 1
    /\ UNCHANGED <<schedule, schedDisk, history, progress, backup_lock, task, sret>>
    /\ UNCHANGED schOthers

(***************************************************************************)
(* Read-modify-write operations of the storage manager, called from worker *)
(* threads.  get_protocol and upsert_protocol each open a connection of    *)
(* their own and no transaction spans the two, so the calls of another     *)
(* worker can fall between them.                                           *)
(***************************************************************************)
Workers == {"a", "b"}

IdleCall == [pc |-> "idle", op |-> "none", id |-> 0, tag |-> 0, protocol |-> <<>>, ok |-> FALSE]
CallInit == calls = [w \in Workers |-> IdleCall]

\* `self.get_protocol(protocol_id)?.ok_or_else(|| anyhow!("Protocol not found"))?`
\* at the head of add_protocol_tag and of toggle_protocol_favorite
GetForUpdate(w, op, protocol_id, tag) ==
    /\ LET got == get_protocol(db, protocol_id)
       IN  /\ calls' = [calls EXCEPT ![w] =
                 IF got.ok /\ got.val # <<>>
                 THEN [pc |-> "read", op |-> op, id |-> protocol_id, tag |-> tag,
                       protocol |-> got.val, ok |-> FALSE]
                 ELSE [pc |-> "done", op |-> op, id |-> protocol_id, tag |-> tag,
                       protocol |-> <<>>, ok |-> FALSE]]
           /\ ret' = Ret("get_protocol", <<protocol_id>>, got.ok, Len(got.val), got.err)
    /\ UNCHANGED <<db, tx, policies>>
    /\ UNCHANGED callOthers

\* add_protocol_tag, up to the return of get_protocol
AddProtocolTagGet(w, protocol_id, tag) ==
    /\ calls[w].pc = "idle"
    /\ GetForUpdate(w, "add_protocol_tag", protocol_id, tag)

\* toggle_protocol_favorite, up to the return of get_protocol
ToggleProtocolFavoriteGet(w, protocol_id) ==
    /\ calls[w].pc = "idle"
    /\ GetForUpdate(w, "toggle_protocol_favorite", protocol_id, 0)

\* the change add_protocol_tag makes to the protocol it read
add_protocol_tag(protocol, tag, now) ==
    IF ~Contains(protocol.tags, tag)
    THEN [protocol EXCEPT !.tags = Append(@, tag), !.updated_at = now]
    ELSE protocol

\* the change toggle_protocol_favorite makes to the protocol it read
toggle_protocol_favorite(protocol) ==
    [protocol EXCEPT !.is_favorite = ~protocol.is_favorite]

\* the rest of a read-modify-write call: the protocol read earlier is
\* changed and written back whole
UpsertRead(w, op, protocol, write) ==
    /\ calls[w].pc = "read"
    /\ calls[w].op = op
    /\ LET r == IF write THEN upsert_protocol(db, protocol, FALSE) ELSE Done(db, <<>>)
       IN  /\ db' = r.db
           /\ calls' = [calls EXCEPT ![w].pc = "done", ![w].protocol = <<protocol>>,
                                   ![w].ok = r.ok]
           /\ ret' = Ret(op, <<calls[w].id>>, r.ok, 0, r.err)
    /\ UNCHANGED <<tx, policies>>
    /\ UNCHANGED callOthers

\* add_protocol_tag, from the return of get_protocol on
AddProtocolTagUpsert(w, now) ==
    /\ calls[w].protocol # <<>>
    /\ UpsertRead(w, "add_protocol_tag",
                  add_protocol_tag(calls[w].protocol[1], calls[w].tag, now),
                  ~Contains(calls[w].protocol[1].tags, calls[w].tag))

\* toggle_protocol_favorite, from the return of get_protocol on
ToggleProtocolFavoriteUpsert(w) ==
    /\ calls[w].protocol # <<>>
    /\ UpsertRead(w, "toggle_protocol_favorite",
                  toggle_protocol_favorite(calls[w].protocol[1]), TRUE)

\* The salt or the nonce of the file is replaced by well-formed base64 of n
\* bytes: the first n bytes of the field, zero bytes added when n is more.
Resized(bytes, n) ==
    IF n <= Len(bytes) THEN Take(bytes, n) ELSE bytes \o Repeat(0, n - Len(bytes))

BkFaultLength(field, n) ==
    /\ CanFault("length")
    /\ "base64" \notin bkFaults
    /\ n # Len(B64Decode(bkFile[field]).val)
    /\ bkFile' = [bkFile EXCEPT ![field] = B64Encode(Resized(B64Decode(bkFile[field]).val, n))]
    /\ bkFaults' = bkFaults \cup {"length"}
    /\ UNCHANGED <<bkIssued, bkDoc, bkPw, bkResult>>
    /\ UNCHANGED bkOthers

(***************************************************************************)
(* Export and restore (commands/backup.rs, commands/restore.rs).  The JSON *)
(* text of a BackupData is a sequence of bytes: the three counts of the    *)
(* metadata, then the three arrays, each as its length and its values; a   *)
(* value as the number of its members and, per member, the code of the     *)
(* name, the length of the value and the value.  An exported file is that  *)
(* text, or the container encrypt_backup made of it.                       *)
(***************************************************************************)
KeyNames ==
    <<"id", "name", "updated_at", "is_favorite", "tags", "protocol_id", "logged_at",
      "source", "title", "url", "indexed_at">>
KeyCode(k) == CHOOSE i \in DOMAIN KeyNames : KeyNames[i] = k

\* serde_json::to_string_pretty, of one value and of an array of values
RECURSIVE MembersToText(_, _)
MembersToText(doc, i) ==
    IF i > Len(doc) THEN <<>>
    ELSE <<KeyCode(doc[i][1]), Len(doc[i][2])>> \o doc[i][2] \o MembersToText(doc, i + 1)

ValueToText(doc) == <<Len(doc)>> \o MembersToText(doc, 1)

RECURSIVE ValuesToText(_, _)
ValuesToText(values, i) ==
    IF i > Len(values) THEN <<>>
    ELSE ValueToText(values[i]) \o ValuesToText(values, i + 1)

ArrayToText(values) == <<Len(values)>> \o ValuesToText(values, 1)

\* serde_json::to_string_pretty(&BackupData)
BackupDataToJson(data) ==
    <<data.metadata.protocols_count, data.metadata.doses_count,
      data.metadata.literature_count>>
        \o ArrayToText(data.protocols) \o ArrayToText(data.dose_logs)
        \o ArrayToText(data.literature)

NoText == [ok |-> FALSE, val |-> <<>>, next |-> 0]
Text(v, next) == [ok |-> TRUE, val |-> v, next |-> next]

\* serde_json::from_str, of the n members of a value from position i on
RECURSIVE TextToMembers(_, _, _, _)
TextToMembers(t, i, n, acc) ==
    IF n = 0 THEN Text(acc, i)
    ELSE IF i + 1 > Len(t) THEN NoText
    ELSE IF t[i] \notin DOMAIN KeyNames \/ i + 1 + t[i + 1] > Len(t) THEN NoText
    ELSE TextToMembers(t, i + 2 + t[i + 1], n - 1,
                       Append(acc, <<KeyNames[t[i]], SubSeq(t, i + 2, i + 1 + t[i + 1])>>))

TextToValue(t, i) == IF i > Len(t) THEN NoText ELSE TextToMembers(t, i + 1, t[i], <<>>)

RECURSIVE TextToValues(_, _, _, _)
AfterValue(t, r, n, acc) ==
    IF ~r.ok THEN NoText ELSE TextToValues(t, r.next, n - 1, Append(acc, r.val))

TextToValues(t, i, n, acc) ==
    IF n = 0 THEN Text(acc, i) ELSE AfterValue(t, TextToValue(t, i), n, acc)

TextToArray(t, i) == IF i > Len(t) THEN NoText ELSE TextToValues(t, i + 1, t[i], <<>>)

\* serde_json::from_str::<BackupData>
BackupDataFromJson(t) ==
    LET protocols == TextToArray(t, 4)
        dose_logs == IF protocols.ok THEN TextToArray(t, protocols.next) ELSE NoText
        literature == IF dose_logs.ok THEN TextToArray(t, dose_logs.next) ELSE NoText
    IN  IF Len(t) >= 3 /\ literature.ok /\ literature.next = Len(t) + 1
        THEN Ok([metadata |-> [protocols_count |-> t[1], doses_count |-> t[2],
                               literature_count |-> t[3]],
                 protocols |-> protocols.val, dose_logs |-> dose_logs.val,
                 literature |-> literature.val])
        ELSE Err("Failed to parse backup file as JSON")

\* records.into_iter().map(|r| serde_json::to_value(r).unwrap_or_default())
ToValues(records, ToJson(_)) == [i \in DOMAIN records |-> ToJson(records[i])]

\* for value in values { match serde_json::from_value(value) { Ok(r) => ..,
\* Err(e) => warn!(..) } }: the records that deserialize, in order
FromValues(values, FromJson(_)) ==
    LET Good(v) == FromJson(v).ok
    IN  [i \in DOMAIN SelectSeq(values, Good) |-> FromJson(SelectSeq(values, Good)[i]).val]

PlainFile(backup_json) == [text |-> "backup", bytes |-> backup_json, container |-> NoFile]
ContainerFile(c) == [text |-> "container", bytes |-> <<>>, container |-> c]

\* the BackupData export_backup_data builds from the three lists, as text
\* (the export date and the app version are not read by the restore)
BackupJson(protocols, doses, literature) ==
    BackupDataToJson(
        [metadata |-> [protocols_count |-> Len(protocols),
                       doses_count |-> Len(doses),
                       literature_count |-> Len(literature)],
         protocols |-> ToValues(protocols, ProtocolToJson),
         dose_logs |-> ToValues(doses, DoseLogToJson),
         literature |-> ToValues(literature, LiteratureToJson)])

\* export_backup_data; password is <<>> (None) or <<p>>, salt_bytes and
\* nonce_bytes are what OsRng gives encrypt_backup.
export_backup_data(d, password, salt_bytes, nonce_bytes) ==
    LET protocols == list_protocols(d)
        doses == list_dose_logs(d)
        literature == list_literature(d)
        backup_json == BackupJson(protocols.val, doses.val, literature.val)
        encrypted == encrypt_backup(backup_json, password[1], salt_bytes, nonce_bytes)
    IN  IF ~protocols.ok THEN Err("Could not load protocols")
        ELSE IF ~doses.ok THEN Err("Could not load dose logs")
        ELSE IF ~literature.ok THEN Err("Could not load literature")
        ELSE IF password = <<>> THEN Ok(PlainFile(backup_json))
        ELSE IF password[1] = <<>> THEN Ok(PlainFile(backup_json))
        ELSE IF ~encrypted.ok THEN Err("Failed to encrypt backup")
        ELSE Ok(ContainerFile(encrypted.val))

\* The text of an exported file as the tokens is_encrypted_backup parses:
\* an object whose member "encrypted" exists in a container only.
FileTokens(f) ==
    IF f.text = "container"
    THEN <<"{", "\"other\"", ":", "1", ",", "\"encrypted\"", ":",
           IF f.container.encrypted THEN "true" ELSE "false",
           ",", "\"other\"", ":", "1", "}">>
    ELSE <<"{", "\"other\"", ":", "1", "}">>

\* read_backup_file, of a file under an allowed path that is not gzipped
read_backup_file(issued, f, password) ==
    LET decrypted == decrypt_backup(issued, f.container, password[1])
    IN  IF is_encrypted_backup(FileTokens(f))
        THEN IF password = <<>>
             THEN Err("Backup is encrypted but no password was provided")
             ELSE IF ~decrypted.ok THEN Err("Failed to decrypt backup - check password")
             ELSE BackupDataFromJson(decrypted.val)
        ELSE IF f.text = "container" THEN Err("Failed to parse backup file as JSON")
        ELSE BackupDataFromJson(f.bytes)

\* the restore_from_backup command: read_backup_file, from_value per record,
\* then the writes
restore_command(d, issued, f, password) ==
    LET backup_data == read_backup_file(issued, f, password)
    IN  IF ~backup_data.ok THEN Fail(d, "Failed to read backup file")
        ELSE restore_from_backup(d,
                 [protocols |-> FromValues(backup_data.val.protocols, ProtocolFromJson),
                  dose_logs |-> FromValues(backup_data.val.dose_logs, DoseLogFromJson),
                  literature |-> FromValues(backup_data.val.literature, LiteratureFromJson)])

NoXfer ==
    [file |-> <<>>, issued |-> {}, source |-> EmptyDb, password |-> <<>>,
     done |-> FALSE, used |-> <<>>, fresh |-> EmptyDb,
     result |-> [ok |-> FALSE, val |-> 0, err |-> ""]]
XferInit == xfer = NoXfer

CacheLiterature(entry) ==
    /\ tx = NoTx
    /\ LET r == cache_literature(db, entry)
       IN  /\ db' = r.db
           /\ ret' = Ret("cache_literature", <<entry.id>>, r.ok, 0, r.err)
    /\ UNCHANGED <<tx, policies>>
    /\ UNCHANGED dbOthers

\* export_backup_data, the file it returns is kept
ExportBackupData(password, salt_bytes, nonce_bytes) ==
    /\ tx = NoTx
    /\ xfer.file = <<>>
    /\ LET r == export_backup_data(db, password, salt_bytes, nonce_bytes)
       IN  /\ r.ok
           /\ xfer' = [xfer EXCEPT
                  !.file = <<r.val>>,
                  !.issued = IF r.val.text = "container"
                             THEN {BackupTriple(BackupJson(list_protocols(db).val,
                                                           list_dose_logs(db).val,
                                                           list_literature(db).val),
                                                password[1], salt_bytes, nonce_bytes)}
                             ELSE {},
                  !.source = db,
                  !.password = password]
    /\ UNCHANGED dbVars
    /\ UNCHANGED xferOthers

\* restore_from_backup of the exported file into a freshly initialized store
RestoreExported(password) ==
    /\ xfer.file # <<>>
    /\ ~xfer.done
    /\ LET r == restore_command(EmptyDb, xfer.issued, xfer.file[1], password)
       IN  xfer' = [xfer EXCEPT !.done = TRUE, !.used = password, !.fresh = r.db,
                                !.result = [ok |-> r.ok, val |-> IF r.ok THEN r.val ELSE 0,
                                            err |-> r.err]]
    /\ UNCHANGED dbVars
    /\ UNCHANGED xferOthers

(***************************************************************************)
(* Inputs of the storage specifications.                                   *)
(***************************************************************************)
ProtocolIds == {1, 2}
UnknownIds == {9}             \* identifiers no row has
SupplierIds == {1, 2}
Tags == {77}                  \* "morning"
Peptides == {66}              \* "BPC-157"

\* The identifier lists handed to a bulk operation: up to MaxBatch distinct
\* identifiers, and one list that names an identifier twice.
BatchIds == ProtocolIds \cup UnknownIds
Batches ==
    {SeqByKey(S, [x \in S |-> x]) : S \in {T \in SUBSET BatchIds : Cardinality(T) <= MaxBatch}}
        \cup {<<1, 1>>}

\* The identifiers whose write finds the file locked by another connection.
Locks == SUBSET {1}

\* The records callers hand in carry the time Created; a bulk edit stamps the
\* records it rewrites with OffsetDateTime::now_utc(), a time of Later.
Created == {0}
Later == {1}

ReadProtocols ==
    [id : ProtocolIds, name : {65}, updated_at : Created,
     is_favorite : {FALSE}, tags : {<<>>}]

ReadSuppliers == [id : SupplierIds, name : {83}, updated_at : Created]

\* One price entry per supplier, its id that of the supplier.
ReadPrices ==
    {[id |-> s, supplier_id |-> s, peptide_name |-> p, cost_per_mg |-> 5,
      recorded_at |-> t] : s \in SupplierIds, p \in Peptides, t \in Created}

ReadNext ==
    \/ \E p \in ReadProtocols : UpsertProtocol(p, FALSE)
    \/ \E id \in ProtocolIds : DiskDamage("protocols", id)
    \/ \E id \in SupplierIds : DiskDamage("price_history", id)
    \/ ListProtocols
    \/ \E id \in BatchIds : GetProtocol(id)
    \/ \E ids \in Batches, tag \in Tags, now \in Later :
          BulkAddTagToProtocols(ids, tag, now, {})
    \/ \E s \in ReadSuppliers : UpsertSupplier(s)
    \/ \E e \in ReadPrices : AddPriceHistory(e)
    \/ \E p \in Peptides : ComparePrices(p)

EditNext ==
    \/ \E p \in ReadProtocols : UpsertProtocol(p, FALSE)
    \/ \E id \in ProtocolIds : DiskDamage("protocols", id)
    \/ \E ids \in Batches, tag \in Tags, now \in Later, locked \in Locks :
          BulkAddTagToProtocols(ids, tag, now, locked)
    \/ \E ids \in Batches, fav \in BOOLEAN, now \in Later, locked \in Locks :
          BulkToggleFavoriteProtocols(ids, fav, now, locked)

\* The index columns: two protocols, one row in each of the other tables.
IndexDoseLogs == [id : {1}, protocol_id : ProtocolIds, logged_at : Created]
IndexSuppliers == [id : {1}, name : {83}, updated_at : Created]
IndexItems ==
    [id : {1}, protocol_id : {1}, supplier_id : {<<>>, <<1>>}, updated_at : Created]
IndexAlerts == [id : {1}, is_read : {FALSE}, is_dismissed : {FALSE}, created_at : Created]

IndexNext ==
    \/ \E p \in ReadProtocols : UpsertProtocol(p, FALSE)
    \/ \E l \in IndexDoseLogs : AppendDoseLog(l)
    \/ \E s \in IndexSuppliers : UpsertSupplier(s)
    \/ \E s \in IndexSuppliers : DeleteSupplier(s.id)
    \/ \E it \in IndexItems : UpsertInventoryItem(it)
    \/ \E a \in IndexAlerts : CreateAlert(a)
    \/ \E a \in IndexAlerts : MarkAlertRead(a.id)
    \/ \E a \in IndexAlerts : DismissAlert(a.id)
    \/ \E include_dismissed \in BOOLEAN : ListAlerts(include_dismissed)

\* The bulk deletes: two protocols, one dose log, one body metric, one
\* schedule.
DeleteDoseLogs == [id : {1}, protocol_id : {1}, logged_at : Created]
DeleteBodyMetrics == [id : {1}, date : {20}, created_at : Created, updated_at : Created]
ScheduleIds == {1}

DeleteNext ==
    \/ \E p \in ReadProtocols : UpsertProtocol(p, FALSE)
    \/ \E l \in DeleteDoseLogs : AppendDoseLog(l)
    \/ \E b \in DeleteBodyMetrics : UpsertBodyMetric(b)
    \/ \E id \in ScheduleIds, protocol_id \in ProtocolIds : CreateDoseSchedule(id, protocol_id)
    \/ \E op \in BulkDeleteOps, ids \in Batches : BeginBulkDelete(op, ids)
    \/ \E busy \in BOOLEAN : BulkDeleteStatement(busy)
    \/ CommitBulkDelete
    \/ ListProtocols
    \/ ListDoseLogs
    \/ ListBodyMetrics

\* The cascades: two protocols, one supplier, one row in each dependent
\* table.
CascadeNext ==
    \/ \E p \in ReadProtocols : UpsertProtocol(p, FALSE)
    \/ \E l \in IndexDoseLogs : AppendDoseLog(l)
    \/ \E s \in IndexSuppliers : UpsertSupplier(s)
    \/ \E it \in IndexItems : UpsertInventoryItem(it)
    \/ \E e \in ReadPrices : AddPriceHistory(e)
    \/ \E id \in ScheduleIds, protocol_id \in ProtocolIds : CreateDoseSchedule(id, protocol_id)
    \/ \E id \in BatchIds : DeleteProtocol(id)
    \/ \E s \in IndexSuppliers : DeleteSupplier(s.id)
    \/ \E it \in IndexItems : GetInventoryItem(it.id)

\* The files a start of the program can find: none yet, one written before
\* the is_favorite column and its index existed, the current one, and one a
\* later build has stamped.
StartFiles ==
    {FreshFile,
     [initialize(FreshFile).file EXCEPT !.user_version = SCHEMA_VERSION - 1,
                                        !.is_favorite = FALSE,
                                        !.indexes = @ \ {"idx_protocols_favorite"}],
     initialize(FreshFile).file,
     [initialize(FreshFile).file EXCEPT !.user_version = SCHEMA_VERSION + 1]}

BackupDocuments ==
    {[protocols |-> <<>>, dose_logs |-> <<>>, literature |-> <<>>]}
        \cup {[protocols |-> <<p>>, dose_logs |-> <<>>, literature |-> <<>>] :
                 p \in ReadProtocols}
        \cup {[protocols |-> <<p>>, dose_logs |-> <<l>>, literature |-> <<>>] :
                 p \in ReadProtocols, l \in IndexDoseLogs}

SchemaNext ==
    \/ Initialize
    \/ Connection
    \/ FileCorruption
    \/ VerifyIntegrity
    \/ Settled /\ \E p \in ReadProtocols : UpsertProtocol(p, FALSE)
    \/ Settled /\ \E backup_data \in BackupDocuments : RestoreFromBackup(backup_data)
    \/ Settled /\ PerformLocalBackup
    \/ Settled /\ \E ids \in Batches : BeginBulkDelete("bulk_delete_protocols", ids)
    \/ Settled /\ BulkDeleteStatement(FALSE)
    \/ Settled /\ CommitBulkDelete

\* Keys, and the strings an environment variable or a key file can hold:
\* the hex of a key, with or without a trailing newline, the hex of 31
\* bytes, and a string that is no hex.
Keys == {Repeat(1, KEY_LEN), Repeat(2, KEY_LEN)}
EnvValues == {<<>>} \cup {<<HexEncode(k)>> : k \in Keys} \cup {<<<<1, HEX_BAD>>>>}
KeychainValues == {<<>>} \cup {<<k>> : k \in Keys}
KeyFileValues ==
    {<<>>, <<HexEncode(Repeat(1, KEY_LEN)) \o <<HEX_SPACE>>>>,
     <<HexEncode(Repeat(2, KEY_LEN - 1))>>, <<<<1, HEX_BAD>>>>}
KeyPlaintexts == {<<165>>}
KeyNonces == {Repeat(7, NONCE_LEN)}

KeyNext ==
    \/ \E v \in EnvValues : BackendChange("env", v)
    \/ \E v \in KeychainValues : BackendChange("keychain", v)
    \/ \E v \in KeyFileValues : BackendChange("key_file", v)
    \/ \E generated \in Keys : NewStaticKeyProvider(generated)
    \/ NewEnvKeyProvider
    \/ \E generated \in Keys : NewKeychainKeyProvider(generated)
    \/ Restart
    \/ \E p \in KeyPlaintexts, nonce \in KeyNonces : KeySeal(p, nonce)
    \/ KeyOpen
    \/ \E delete_file \in BOOLEAN : MigrateFileKeyToKeychain(delete_file)
    \/ AttemptKeychainMigration

\* The documents examined: every sequence of up to MaxTokens tokens, and
\* longer documents with more members, a nested flag, an array, a flag
\* that is a string, a number or null, and a cut-off document.
MaxTokens == 4
JsonTokens == {"{", "}", ":", "true", "false", "\"encrypted\"", "\"other\""}
LongDocuments ==
    {<<"{", "\"encrypted\"", ":", "true", "}">>,
     <<"{", "\"encrypted\"", ":", "false", "}">>,
     <<"{", "\"other\"", ":", "1", ",", "\"encrypted\"", ":", "true", "}">>,
     <<"{", "\"encrypted\"", ":", "true", ",", "\"other\"", ":", "[", "true", ",", "null", "]", "}">>,
     <<"{", "\"other\"", ":", "{", "\"encrypted\"", ":", "true", "}", "}">>,
     <<"[", "{", "\"encrypted\"", ":", "true", "}", "]">>,
     <<"{", "\"encrypted\"", ":", "\"other\"", "}">>,
     <<"{", "\"encrypted\"", ":", "1", "}">>,
     <<"{", "\"encrypted\"", ":", "null", "}">>,
     <<"{", "\"encrypted\"", ":", "false", ",", "\"encrypted\"", ":", "true", "}">>,
     <<"{", "\"encrypted\"", ":", "true", ",", "\"encrypted\"", ":", "false", "}">>,
     <<"{", "\"encrypted\"", ":", "true", ",", "\"other\"", ":", "1">>,
     <<"{", "\"encrypted\"", ":", "true", "}", "}">>}
DetectDocuments == SeqsUpTo(JsonTokens, MaxTokens) \cup LongDocuments

DetectNext == \E backup_json \in DetectDocuments : IsEncryptedBackup(backup_json)

\* Protocols of the create, read, replace, delete scenario: two names
\* ("Morning Stack" and another) for each identifier, favorite or not.
CrudProtocols ==
    [id : ProtocolIds, name : {65, 66}, updated_at : Created,
     is_favorite : BOOLEAN, tags : {<<>>}]

CrudNext ==
    \/ \E p \in CrudProtocols : UpsertProtocol(p, FALSE)
    \/ ListProtocols
    \/ \E id \in BatchIds : GetProtocol(id)
    \/ \E id \in BatchIds : DeleteProtocol(id)

\* Schedules the settings page sends to update_backup_schedule.
ScheduleInput(enabled, frequency, backup_on_close, max_retries) ==
    [enabled |-> enabled, frequency |-> frequency, last_backup |-> <<>>,
     next_backup |-> <<>>, backup_on_close |-> backup_on_close,
     max_retries |-> max_retries]
ScheduleInputs ==
    {ScheduleInput(TRUE, [kind |-> "Hourly", hour |-> 0], FALSE, MaxRetries),
     ScheduleInput(TRUE, [kind |-> "Manual", hour |-> 0], TRUE, 0),
     ScheduleInput(FALSE, [kind |-> "DailyAt", hour |-> 1], TRUE, 1),
     ScheduleInput(TRUE, [kind |-> "Weekly", hour |-> 0], FALSE, 1)}

\* backup_schedule.json at startup: absent, or a schedule whose next_backup
\* is an RFC 3339 time, as serde_json::from_str accepts any string there.
StartScheduleFiles ==
    {<<>>} \cup
    {<<[enabled |-> TRUE, frequency |-> [kind |-> k, hour |-> 0],
        last_backup |-> <<>>, next_backup |-> <<<<0, "T", "Z">>>>,
        backup_on_close |-> FALSE, max_retries |-> 1]>> : k \in {"Hourly", "Manual"}}

SchedulerNext ==
    \/ SchedulerTick
    \/ TriggerManualBackup
    \/ TriggerBackupOnClose
    \/ \E t \in Tasks : AttemptBegin(t)
    \/ \E t \in Tasks, backup_ok \in BOOLEAN, write_ok \in BOOLEAN :
          AttemptEnd(t, backup_ok, write_ok)
    \/ \E t \in Tasks : RunExhausted(t)
    \/ \E s \in ScheduleInputs, write_ok \in BOOLEAN : UpdateBackupSchedule(s, write_ok)
    \/ ClockTick

\* The store the workers start from, and the tags they add.
SeedProtocol(id) ==
    [id |-> id, name |-> 65, updated_at |-> 0, is_favorite |-> FALSE, tags |-> <<>>]
SeededStore == upsert_protocol(upsert_protocol(EmptyDb, SeedProtocol(1), FALSE).db,
                               SeedProtocol(2), FALSE).db
WorkerTags == {77, 78}        \* "morning", "night"

ConcurrentNext ==
    \/ \E w \in Workers, id \in BatchIds, tag \in WorkerTags : AddProtocolTagGet(w, id, tag)
    \/ \E w \in Workers, id \in BatchIds : ToggleProtocolFavoriteGet(w, id)
    \/ \E w \in Workers, t \in Later : AddProtocolTagUpsert(w, t)
    \/ \E w \in Workers : ToggleProtocolFavoriteUpsert(w)

\* Lengths a salt or nonce field can decode to: none, below and above the
\* argon2 and SaltString limits, one less and one more than the nonce and
\* the salt size.
FieldLengths == {0, 2, 7, 11, 13, 15, 17}

ContainerNext ==
    \/ \E d \in Documents, pw \in Passwords, salt \in Salts, nonce \in Nonces :
          BkEncrypt(d, pw, salt, nonce)
    \/ \E field \in {"salt", "nonce"}, n \in FieldLengths : BkFaultLength(field, n)
    \/ \E pw2 \in Passwords : BkDecrypt(pw2)

\* The records of the store that is exported, and the passwords given to
\* export and restore: none, the empty one, "p".
XferProtocols ==
    {[id |-> 1, name |-> 65, updated_at |-> 0, is_favorite |-> TRUE, tags |-> <<77>>],
     [id |-> 2, name |-> 66, updated_at |-> 0, is_favorite |-> FALSE, tags |-> <<>>]}
XferDoseLogs == [id : {1}, protocol_id : ProtocolIds, logged_at : Created]
XferLiterature ==
    [id : {1}, source : {80}, title : {84}, url : {<<>>, <<85>>}, indexed_at : Created]
XferPasswords == {<<>>, <<<<>>>>, <<<<112>>>>}
XferSalts == {Repeat(3, SALT_SIZE)}
XferNonces == {Repeat(5, NONCE_LEN)}

\* The store is filled, then exported once, then that file is restored.
RoundTripNext ==
    \/ xfer.file = <<>> /\ \E p \in XferProtocols : UpsertProtocol(p, FALSE)
    \/ xfer.file = <<>> /\ \E l \in XferDoseLogs : AppendDoseLog(l)
    \/ xfer.file = <<>> /\ \E e \in XferLiterature : CacheLiterature(e)
    \/ \E password \in XferPasswords, salt \in XferSalts, nonce \in XferNonces :
          ExportBackupData(password, salt, nonce)
    \/ \E password \in XferPasswords : RestoreExported(password)

(***************************************************************************)
(* Specifications.                                                         *)
(***************************************************************************)
Init == EnvInit /\ BkInit /\ DbInit /\ FileInit /\ KeyInit /\ DetectInit /\ SchedulerInit /\ CallInit /\ XferInit

SpecEnvelope == Init /\ [][EnvNext]_vars

SpecBackup == Init /\ [][BkNext]_vars

SpecRead == Init /\ [][ReadNext]_vars

SpecEdit == Init /\ [][EditNext]_vars

SpecIndex == Init /\ [][IndexNext]_vars

SpecBulkDelete == Init /\ [][DeleteNext]_vars

SpecCascade == Init /\ [][CascadeNext]_vars

InitSchema == EnvInit /\ BkInit /\ DbInit /\ KeyInit /\ DetectInit /\ SchedulerInit /\ CallInit /\ XferInit /\ file \in StartFiles /\ conn = NoConn
SpecSchema == InitSchema /\ [][SchemaNext]_vars

SpecKeys == Init /\ [][KeyNext]_vars

SpecShort == Init /\ [][ShortNext]_vars

SpecDetect == Init /\ [][DetectNext]_vars

SpecCrud == Init /\ [][CrudNext]_vars

\* The scheduler from application start, over the schedule files.
InitScheduler ==
    /\ EnvInit /\ BkInit /\ DbInit /\ FileInit /\ KeyInit /\ DetectInit /\ CallInit /\ XferInit
    /\ \E disk \in StartScheduleFiles : SchedulerStart(disk)
SpecScheduler == InitScheduler /\ [][SchedulerNext]_vars

\* Two workers, one read-modify-write call each, on a store of two protocols.
InitConcurrent ==
    /\ EnvInit /\ BkInit /\ FileInit /\ KeyInit /\ DetectInit /\ SchedulerInit /\ CallInit /\ XferInit
    /\ db = SeededStore
    /\ tx = NoTx
    /\ policies = {}
    /\ ret = Ret("none", <<>>, TRUE, 0, "")
SpecConcurrent == InitConcurrent /\ [][ConcurrentNext]_vars

SpecContainer == Init /\ [][ContainerNext]_vars

SpecRoundTrip == Init /\ [][RoundTripNext]_vars

(***************************************************************************)
(* Claims.                                                                 *)
(***************************************************************************)
\* C1: opening an untampered sealed payload with a provider holding the same
\* 32-byte key returns exactly the plaintext that was sealed.
EnvelopeRoundTrip ==
    (opened.by # 0 /\ tamper = <<>> /\ SameKey(opened.by, sealedBy))
        => (opened.ok /\ opened.val = sealedPt)

EnvelopeRoundTripWitness ==
    /\ opened.by # 0 /\ tamper = <<>> /\ opened.by = sealedBy
    /\ Len(sealedPt) = MaxLen /\ opened.ok

\* C2: after any single bit of a sealed payload (nonce, ciphertext or tag) was
\* flipped, open fails with the authentication error and returns no plaintext,
\* whichever provider opens it.
EnvelopeAuthentication ==
    (opened.by # 0 /\ tamper # <<>>)
        => (~opened.ok /\ opened.val = <<>>
            /\ opened.err = "decryption failed: aead::Error")

EnvelopeAuthenticationWitness ==
    /\ opened.by # 0 /\ opened.by = sealedBy
    /\ tamper # <<>> /\ tamper[1] = NONCE_LEN + 1 /\ Len(sealedPt) = MaxLen
    /\ ~opened.ok

\* C3: open by a provider whose 32 key bytes differ from those of the sealing
\* provider fails, for every payload.
EnvelopeKeyIsolation ==
    (opened.by # 0 /\ ~SameKey(opened.by, sealedBy)) => ~opened.ok

EnvelopeKeyIsolationWitness ==
    /\ opened.by = 2 /\ sealedBy = 1 /\ tamper = <<>>
    /\ Len(sealedPt) = MaxLen /\ ~opened.ok

\* C4: decrypting the untouched output of encrypt_backup(d, pw) with the same
\* password returns exactly d, for every document and password, the empty
\* password included.
BackupRoundTrip ==
    (bkResult.done /\ bkFaults = {} /\ bkResult.pw = bkPw)
        => (bkResult.ok /\ bkResult.val = bkDoc)

BackupRoundTripWitness ==
    /\ bkResult.done /\ bkFaults = {} /\ bkResult.pw = bkPw /\ bkPw = <<>>
    /\ Len(bkDoc) = MaxLen /\ bkResult.ok

ErrVersion == "Unsupported backup encryption version"
ErrNotEncrypted == "Backup is not marked as encrypted"
ErrDecode == {"Failed to decode salt", "Failed to decode nonce", "Failed to decode ciphertext"}
ErrAuthentication == "Decryption failed - incorrect password or corrupted data"

\* C5: decrypt_backup answers an unknown version with the version error, a
\* false encrypted flag with the not-encrypted error, a malformed base64 field
\* with a decode error, and a wrong password or a corrupted ciphertext with the
\* authentication error (when several causes are present, in this order); in
\* none of these cases does it return plaintext.
BackupDecryptErrors ==
    bkResult.done =>
        /\ "version" \in bkFaults => bkResult.err = ErrVersion
        /\ ("flag" \in bkFaults /\ "version" \notin bkFaults)
               => bkResult.err = ErrNotEncrypted
        /\ ("base64" \in bkFaults /\ bkFaults \cap {"version", "flag"} = {})
               => bkResult.err \in ErrDecode
        /\ (("ciphertext" \in bkFaults \/ bkResult.pw # bkPw)
               /\ bkFaults \cap {"version", "flag", "base64"} = {})
               => bkResult.err = ErrAuthentication
        /\ (bkFaults # {} \/ bkResult.pw # bkPw)
               => (~bkResult.ok /\ bkResult.val = <<>>)

BackupDecryptErrorsWitness ==
    /\ bkResult.done /\ bkFaults = {} /\ bkResult.pw # bkPw
    /\ Len(bkDoc) = MaxLen /\ bkResult.err = ErrAuthentication

\* A row whose payload decodes carries in `columns` what the payload says.
RowMatches(row, decoded, columns) ==
    decoded.ok /\ \A c \in columns : row[c] = decoded.val[c]

\* C6: in every state the storage manager's writes leave, each row's plaintext
\* index columns (name, favorite flag, read and dismissed flags, timestamps,
\* foreign keys) equal the fields of the same name inside the row's encrypted
\* payload.
IndexColumnsMatchPayload ==
    /\ \A id \in DOMAIN db.protocols :
          LET row == db.protocols[id]
              decoded == decode_protocol(row.payload)
          IN  /\ RowMatches(row, decoded, {"name", "updated_at"})
              /\ row.is_favorite = BoolNum(decoded.val.is_favorite)
    /\ \A id \in DOMAIN db.dose_logs :
          RowMatches(db.dose_logs[id], decode_dose_log(db.dose_logs[id].payload),
                     {"protocol_id", "logged_at"})
    /\ \A id \in DOMAIN db.suppliers :
          RowMatches(db.suppliers[id], decode_supplier(db.suppliers[id].payload),
                     {"name", "updated_at"})
    /\ \A id \in DOMAIN db.inventory :
          RowMatches(db.inventory[id], decode_inventory_item(db.inventory[id].payload),
                     {"protocol_id", "supplier_id", "updated_at"})
    /\ \A id \in DOMAIN db.alerts :
          LET row == db.alerts[id]
              decoded == decode_alert(row.payload)
          IN  /\ RowMatches(row, decoded, {"created_at"})
              /\ row.is_read = BoolNum(decoded.val.is_read)
              /\ row.is_dismissed = BoolNum(decoded.val.is_dismissed)

\* The rows of a table whose payload the storage manager cannot decode.
UnreadableProtocols(d) ==
    {id \in DOMAIN d.protocols : ~decode_protocol(d.protocols[id].payload).ok}

\* The suppliers whose latest price for the peptide cannot be decoded.
UnreadablePrices(d, peptide_name) ==
    {s \in DOMAIN d.suppliers : ~get_latest_price(d, s, peptide_name).ok}

\* C7: a read that fetches a record it cannot decrypt fails as a whole, with
\* the error of the decryption: list_protocols and get_protocol, the reads of
\* bulk_add_tag_to_protocols, and the price reads of compare_prices never
\* return Ok, or "no data", when a record they fetched does not decrypt.
ReadsFailOnUndecryptable ==
    LET failed == ~ret.ok /\ ret.err # "No price data found"
    IN  /\ (ret.op = "list_protocols" /\ UnreadableProtocols(db) # {}) => failed
        /\ (ret.op = "get_protocol" /\ ret.ids[1] \in UnreadableProtocols(db)) => failed
        /\ (ret.op = "bulk_add_tag_to_protocols"
               /\ \E i \in 1..Len(ret.ids) : ret.ids[i] \in UnreadableProtocols(db))
              => failed
        /\ (ret.op = "compare_prices" /\ UnreadablePrices(db, ret.arg) # {}) => failed

\* The database a bulk delete of the batch leaves when all of it is done: the
\* listed rows gone, and with a protocol its dose logs and inventory items.
AllDeleted(d, op, ids) ==
    LET gone == {ids[i] : i \in 1..Len(ids)} \cap DOMAIN d[TableOf(op)]
    IN  IF op = "bulk_delete_protocols"
        THEN [d EXCEPT !.protocols = Delete(@, gone),
                       !.dose_logs = Delete(@, Referencing(d.dose_logs, gone)),
                       !.inventory = Delete(@, Referencing(d.inventory, gone))]
        ELSE [d EXCEPT ![TableOf(op)] = Delete(@, gone)]

\* C8: a bulk delete is atomic.  While its transaction is open the committed
\* tables, which every other operation reads, do not change; when it ends,
\* either it returns Ok, every listed row is gone at once and the count is the
\* number of rows that were there, or it returns an error and no row is gone.
BulkDeleteAtomic ==
    [][/\ tx' # NoTx => db' = db
       /\ (tx # NoTx /\ tx' = NoTx) =>
             IF ret'.ok
             THEN /\ db' = AllDeleted(db, tx.op, tx.ids)
                  /\ ret'.count = Cardinality({tx.ids[i] : i \in 1..Len(tx.ids)}
                                                 \cap DOMAIN db[TableOf(tx.op)])
             ELSE db' = db]_vars

\* A batch of two protocols failed on the second, which has a schedule, after
\* the first was deleted inside the transaction: both are still there.
BulkDeleteAtomicWitness ==
    /\ tx = NoTx
    /\ ret.op = "bulk_delete_protocols" /\ ret.ids = <<1, 2>> /\ ~ret.ok
    /\ {1, 2} \subseteq DOMAIN db.protocols
    /\ Referencing(db.dose_schedules, {1}) = {}
    /\ Referencing(db.dose_schedules, {2}) # {}

\* C9: given one valid and one invalid identifier, the bulk deletes follow one
\* policy: each such call either deletes the valid row and reports count 1 or
\* deletes nothing and returns an error, and all such calls, for all inputs
\* and all three operations, do the same of the two.
BulkDeletePolicyConsistent ==
    /\ policies \subseteq {"partial", "atomic"}
    /\ Cardinality(policies) <= 1

BulkEditOps == {"bulk_add_tag_to_protocols", "bulk_toggle_favorite_protocols"}

\* The record already has what the bulk operation with this argument sets.
HasEdit(op, arg, protocol) ==
    IF op = "bulk_add_tag_to_protocols" THEN Contains(protocol.tags, arg)
    ELSE BoolNum(protocol.is_favorite) = arg

\* The records of the batch the call has to change: readable, not yet as the
\* argument wants them, and their write not locked out.
DueEdits(d, call) ==
    {id \in DOMAIN d.protocols :
        /\ Contains(call.ids, id)
        /\ id \notin UnreadableProtocols(d)
        /\ ~HasEdit(call.op, call.arg, decode_protocol(d.protocols[id].payload).val)
        /\ id \notin call.locked}

\* C10: a bulk tag-add or favorite-set changes exactly the records of the batch
\* that are due, whatever happens to the other records of the batch (unknown
\* id, undecryptable payload, locked write), returns Ok, and its count is the
\* number of rows it changed.
BulkEditsIndependent ==
    [][ret'.op \in BulkEditOps =>
          LET changed == {id \in DOMAIN db.protocols :
                             db'.protocols[id] # db.protocols[id]}
          IN  /\ ret'.ok
              /\ DOMAIN db'.protocols = DOMAIN db.protocols
              /\ changed = DueEdits(db, ret')
              /\ ret'.count = Cardinality(changed)
              /\ \A id \in changed :
                     /\ id \notin UnreadableProtocols(db')
                     /\ HasEdit(ret'.op, ret'.arg,
                                decode_protocol(db'.protocols[id].payload).val)]_vars

\* A batch of two records, the first undecryptable, the second tagged by the
\* call, count 1.
BulkEditsIndependentWitness ==
    /\ ret.op = "bulk_add_tag_to_protocols" /\ ret.ids = <<1, 2>> /\ ret.count = 1
    /\ 1 \in UnreadableProtocols(db)
    /\ 2 \in DOMAIN db.protocols /\ 2 \notin UnreadableProtocols(db)
    /\ Contains(decode_protocol(db.protocols[2].payload).val.tags, ret.arg)

\* C11: deleting a protocol that exists succeeds, and afterwards the protocol
\* is gone and no dose log and no inventory item references its id.
DeleteProtocolCascades ==
    [][(ret'.op = "delete_protocol" /\ ret'.ids[1] \in DOMAIN db.protocols) =>
          /\ ret'.ok
          /\ ret'.ids[1] \notin DOMAIN db'.protocols
          /\ Referencing(db'.dose_logs, {ret'.ids[1]}) = {}
          /\ Referencing(db'.inventory, {ret'.ids[1]}) = {}]_vars

\* The inventory items whose supplier_id column names the supplier.
SuppliedBy(d, supplier_id) ==
    {x \in DOMAIN d.inventory : d.inventory[x].supplier_id = <<supplier_id>>}

\* C12: deleting a supplier keeps every inventory item that referenced it,
\* with no supplier reference left on it, neither in the row nor in the item
\* get_inventory_item reads back, and deletes the supplier's price history.
DeleteSupplierNullifies ==
    [][ret'.op = "delete_supplier" =>
          /\ \A x \in SuppliedBy(db, ret'.ids[1]) :
                /\ x \in DOMAIN db'.inventory
                /\ db'.inventory[x].supplier_id = <<>>
                /\ get_inventory_item(db', x).ok
                /\ get_inventory_item(db', x).val[1].supplier_id # <<ret'.ids[1]>>
          /\ \A e \in DOMAIN db'.price_history :
                db'.price_history[e].supplier_id # ret'.ids[1]]_vars

\* C13: running initialize again on a file this build has already
\* initialized returns no error and leaves the schema, the stored records
\* and the stamped schema version as they were.
SchemaInitIdempotent ==
    [][(ret'.op = "initialize" /\ Initialized(file)
            /\ file.user_version = SCHEMA_VERSION) =>
          /\ ret'.ok
          /\ file'.tables = file.tables
          /\ file'.indexes = file.indexes
          /\ file'.is_favorite = file.is_favorite
          /\ file'.user_version = file.user_version
          /\ db' = db]_vars

SchemaInitIdempotentWitness ==
    /\ ret.op = "initialize" /\ ret.ok
    /\ Initialized(file) /\ file.user_version = SCHEMA_VERSION
    /\ DOMAIN db.protocols # {}

\* C14: the schema version stamped in the file never decreases, whatever
\* the operation, opening a connection to a file stamped by a later build
\* included.
SchemaVersionMonotonic ==
    [][file'.user_version >= file.user_version]_vars

\* C15: a backup, a restore or a bulk delete on a file whose integrity
\* check fails is refused and changes nothing.
DestructiveOps == {"restore_from_backup", "perform_local_backup"} \cup BulkDeleteOps

VerifyIntegrityGates ==
    [][(ret' # ret /\ ret'.op \in DestructiveOps /\ ~verify_integrity(file)) =>
          (~ret'.ok /\ db' = db)]_vars

\* C16: every connection the manager has opened, the raw one included, is
\* in WAL mode with foreign keys on, synchronous FULL and secure_delete on.
ConnectionsHardened ==
    conn # NoConn =>
        /\ conn.journal_mode = "wal"
        /\ conn.foreign_keys
        /\ conn.synchronous = "FULL"
        /\ conn.secure_delete

ConnectionsHardenedWitness ==
    ret.op = "connection" /\ conn # NoConn /\ conn.secure_delete

\* C17: every seal and every open works with the key the provider's
\* backend holds at that moment, for the static, the environment and the
\* Keychain provider: a key changed in the backend is the key of the very
\* next call, without a restart.  The backend of the static provider is the
\* key it was constructed with.
BackendKeyMaterial(p, b) ==
    IF p.kind = "env"
    THEN IF b.env = <<>> \/ ~HexDecode(b.env[1]).ok THEN Err("no key")
         ELSE KeyMaterialNew(HexDecode(b.env[1]).val)
    ELSE ProviderKeyMaterial(p, b)

KeyRotationImmediate ==
    (kret.op \in {"seal", "open"} /\ BackendKeyMaterial(provider, backend).ok) =>
        kret.key = to_key_bytes(BackendKeyMaterial(provider, backend).val)

OpenShortIsCorrupt ==
    opened.by # 0 =>
        /\ Len(wire) < NONCE_LEN + TAG_LEN => opened.err = "ciphertext too short"
        /\ opened.err = "decryption failed: aead::Error" => Len(wire) >= NONCE_LEN + TAG_LEN

\* C19: is_encrypted_backup answers true exactly for a text that parses as
\* JSON to an object whose "encrypted" member is the boolean true, and
\* false for every other text: malformed JSON, no such member, the member
\* false or not a boolean, the member only in a nested object.
CarriesEncryptedTrue(t) ==
    /\ JsonFromStr(t).ok
    /\ JsonFromStr(t).val.kind = "object"
    /\ \E i \in DOMAIN JsonFromStr(t).val.members :
          /\ JsonFromStr(t).val.members[i] = <<"\"encrypted\"", JsonValue("bool", TRUE, <<>>)>>
          /\ \A j \in DOMAIN JsonFromStr(t).val.members :
                j > i => JsonFromStr(t).val.members[j][1] # "\"encrypted\""

DetectsEncryptedExactly ==
    detected.done => (detected.result <=> CarriesEncryptedTrue(detected.doc))

DetectsEncryptedExactlyWitness ==
    /\ detected.done /\ detected.result
    /\ Len(detected.doc) > MaxTokens

\* C21: after a protocol is upserted, list returns exactly one record with
\* its identifier, that record and the one get returns are the protocol
\* upserted, and the list has grown by one only if the identifier was new
\* (so one record in a store that was empty); after the delete of a stored
\* protocol, which succeeds, get finds nothing and the list is one shorter.
WithId(records, id) == {i \in DOMAIN records : records[i].id = id}

ProtocolCrudScenario ==
    [][/\ \A p \in CrudProtocols :
             UpsertProtocol(p, FALSE) =>
                 /\ ret'.ok
                 /\ get_protocol(db', p.id) = Ok(<<p>>)
                 /\ list_protocols(db').ok
                 /\ Cardinality(WithId(list_protocols(db').val, p.id)) = 1
                 /\ \A i \in WithId(list_protocols(db').val, p.id) :
                       list_protocols(db').val[i] = p
                 /\ Len(list_protocols(db').val) =
                       Len(list_protocols(db).val)
                           + (IF p.id \in DOMAIN db.protocols THEN 0 ELSE 1)
       /\ \A id \in ProtocolIds :
             (DeleteProtocol(id) /\ id \in DOMAIN db.protocols) =>
                 /\ ret'.ok
                 /\ get_protocol(db', id) = Ok(<<>>)
                 /\ WithId(list_protocols(db').val, id) = {}
                 /\ Len(list_protocols(db').val) = Len(list_protocols(db).val) - 1]_vars

ProtocolCrudScenarioWitness ==
    /\ ret.op = "delete_protocol" /\ ret.ok
    /\ list_protocols(db) = Ok(<<>>)

\* C22: at most one task is inside a backup run at any time, and while a run
\* is in progress a scheduler iteration, a manual trigger or the close hook
\* starts no second run: it is skipped or rejected and leaves the run, the
\* lock, the progress and the history as they are.
OneBackupRun ==
    [][ /\ Cardinality(Running') <= 1
        /\ (Running # {} /\ (SchedulerTick \/ TriggerManualBackup \/ TriggerBackupOnClose))
              => /\ sret'.outcome # "started"
                 /\ UNCHANGED <<task, backup_lock, progress, history, schedule>>
      ]_vars

\* the manual trigger was rejected while the scheduler's run was in progress
OneBackupRunWitness ==
    /\ sret.op = "trigger_manual_backup"
    /\ sret.outcome = "err"
    /\ sret.err = "A backup is already in progress"
    /\ "scheduler" \in Running

\* C24: for every max_retries, a backup run ends with a returned result
\* after at most max_retries attempts, a successful attempt is its last, and
\* the run records exactly one history entry, at its end, whose success
\* flag says whether an attempt succeeded.
RunEnds(t) == t \in Running /\ t \notin Running'

RetryRunOutcome ==
    [][ /\ \A t \in Tasks :
              RunEnds(t) =>
                  /\ sret'.task = t
                  /\ sret'.outcome \in {"ok", "err"}
                  /\ task[t].attempt <= task[t].max_retries
                  /\ Len(history') = Len(history) + 1
                  /\ history'[1].success = (sret'.outcome = "ok")
        /\ \A t \in Tasks :
              (task[t].pc = "backup" /\ sret'.task = t /\ sret'.outcome = "ok") => RunEnds(t)
        /\ history' # history => \E t \in Tasks : RunEnds(t)
      ]_vars

\* C25: every next_backup the program writes, in update_backup_schedule and
\* at the end of a successful run, is a time the scheduler loop can parse,
\* so that the loop starts a run once that time has passed.
NextBackupReadable ==
    [][ (schedule'.next_backup # schedule.next_backup /\ schedule'.next_backup # <<>>)
            => ParseRfc3339(schedule'.next_backup[1]).ok ]_vars

\* C26: is_running is true only while a backup run is executing; when no
\* task is inside a run, whether the last run succeeded or failed on all
\* its attempts, the flag is false.
RunningFlagFollowsRun == progress.is_running => Running # {}

\* C29: an update_backup_schedule that returns an error leaves the schedule
\* in memory unchanged, and after every call the schedule in memory is the
\* schedule last written to the file.
UpdateScheduleAtomic ==
    [][ \A s \in ScheduleInputs, write_ok \in BOOLEAN :
            UpdateBackupSchedule(s, write_ok) =>
                /\ sret'.outcome = "err" => schedule' = schedule
                /\ schedDisk' = <<schedule'>> ]_vars

BothChanges(a, b) ==
    LET first == IF calls[a].op = "add_protocol_tag"
                 THEN add_protocol_tag(SeedProtocol(calls[a].id), calls[a].tag, 0)
                 ELSE toggle_protocol_favorite(SeedProtocol(calls[a].id))
    IN  IF calls[b].op = "add_protocol_tag"
        THEN add_protocol_tag(first, calls[b].tag, 0)
        ELSE toggle_protocol_favorite(first)

NoLostUpdate ==
    \A a \in Workers, b \in Workers :
        (a # b /\ calls[a].pc = "done" /\ calls[b].pc = "done" /\ calls[a].ok /\ calls[b].ok
              /\ calls[a].id = calls[b].id) =>
            LET stored == get_protocol(db, calls[a].id)
            IN  /\ stored.ok /\ stored.val # <<>>
                /\ {stored.val[1].tags[i] : i \in DOMAIN stored.val[1].tags}
                       = {BothChanges(a, b).tags[i] : i \in DOMAIN BothChanges(a, b).tags}
                /\ stored.val[1].is_favorite = BothChanges(a, b).is_favorite

\* C27: decrypt_backup of a container that parses and whose base64 fields
\* are well-formed returns a value, Ok or an error, and never panics; a
\* container whose nonce is not 12 bytes or whose salt is not 16 bytes gets
\* an error.
DecryptLengthsRejected ==
    bkResult.done =>
        /\ bkResult.err # "panic: Nonce::from_slice"
        /\ "length" \in bkFaults => ~bkResult.ok

\* C28: restoring the file export_backup_data made of a store, with the
\* password the export was given, into a freshly initialized store succeeds
\* and yields the protocols, dose logs and literature entries of the
\* exported store, and as many restored records as the metadata counts.
Listed(r) == {r.val[i] : i \in DOMAIN r.val}

ExportRestoreRoundTrip ==
    (xfer.done /\ xfer.used = xfer.password) =>
        /\ xfer.result.ok
        /\ list_protocols(xfer.fresh).ok
        /\ Listed(list_protocols(xfer.fresh)) = Listed(list_protocols(xfer.source))
        /\ list_dose_logs(xfer.fresh).ok
        /\ Listed(list_dose_logs(xfer.fresh)) = Listed(list_dose_logs(xfer.source))
        /\ list_literature(xfer.fresh).ok
        /\ Listed(list_literature(xfer.fresh)) = Listed(list_literature(xfer.source))
        /\ xfer.result.val = Len(list_protocols(xfer.source).val)
                                 + Len(list_dose_logs(xfer.source).val)
                                 + Len(list_literature(xfer.source).val)

=============================================================================
